---- MODULE Spec2Model ----
(***************************************************************************)
(* Model of the Playwright based Google search engine of mcp_web_search:   *)
(* the orchestration in google_search/engine.py (google_search,            *)
(* _perform_search_internal, _perform_search_with_browser) together with   *)
(* the helpers of search_executor.py it drives, the HTML capture of        *)
(* html_extractor.py, and the sidecar written by save_browser_state and    *)
(* read by load_saved_state of browser_manager.py.                         *)
(*                                                                         *)
(* Strings are modelled as sequences over an alphabet of tokens chosen so  *)
(* that every marker the code searches for is a whole number of tokens;    *)
(* "x in s" and startsWith are then computed on the token sequences.       *)
(***************************************************************************)
EXTENDS Integers, Sequences, FiniteSets, TLC

\* ------------------------------------------------------------------------
\* Bounds of the model
\* ------------------------------------------------------------------------

\* largest result-count limit a request carries
MaxLimit == 2

\* most result containers / anchors a page built for extraction holds
MaxNodes == 3

\* most tokens of a URL handed to is_blocked_page on its own
MaxUrlLen == 4

\* largest distance of the host from UTC, in quarters of an hour (14 h)
MaxOffsetQuarters == 56

\* ------------------------------------------------------------------------
\* Strings
\* ------------------------------------------------------------------------

\* Python "needle in hay" / JS hay.includes(needle)
Contains(hay, needle) ==
    \E i \in 0..(Len(hay) - Len(needle)) :
        \A j \in 1..Len(needle) : hay[i + j] = needle[j]

\* JS link.startsWith('http')
StartsWithHttp(s) == Len(s) >= 1 /\ s[1] = "http"

EmptyStr == << >>

\* Python s.replace(old, new) for a one-token old: every occurrence is replaced
RECURSIVE Replace(_, _, _)
Replace(s, old, new) ==
    IF s = << >> THEN << >>
    ELSE (IF Head(s) = old THEN new ELSE <<Head(s)>>) \o Replace(Tail(s), old, new)

\* ------------------------------------------------------------------------
\* URLs met by the model
\* ------------------------------------------------------------------------

HomeUrl    == <<"http", "s", "://", "www.", "google", ".com/">>
ResultsUrl == <<"http", "s", "://", "www.", "google", ".com/", "search?", "q=", "rust">>
SorryUrl   == <<"http", "s", "://", "www.", "google", ".com/", "sorry", "/index", "?continue=">>

SiteA      == <<"http", "s", "://", "a.example/">>
SiteB      == <<"http", "://", "b.example/">>
GoogleNav  == <<"http", "s", "://", "accounts.", "google", ".com/", "login">>
SupportNav == <<"http", "s", "://", "support.", "google", ".org/">>
RegionalNav == <<"http", "s", "://", "www.", "google", ".co.uk/", "preferences">>
JsHref     == <<"javascript:", "void(0)">>

\* ------------------------------------------------------------------------
\* SearchExecutor.__init__ / is_blocked_page
\* ------------------------------------------------------------------------

sorry_patterns ==
    << <<"google", ".com/", "sorry", "/index">>,
       <<"google", ".com/", "sorry">>,
       <<"re", "captcha">>,
       <<"captcha">>,
       <<"unusual traffic">> >>

\* the value None of an optional string argument
NoUrl == <<"None">>

\* a predicate that looks at the page URL only
is_blocked_page_url_only(url, response_url) ==
    \E k \in 1..Len(sorry_patterns) : Contains(url, sorry_patterns[k])

\* the part of a URL in front of its query string
RECURSIVE BeforeQuery(_)
BeforeQuery(url) ==
    IF url = << >> \/ Head(url) \in {"search?", "?continue="} THEN << >>
    ELSE <<Head(url)>> \o BeforeQuery(Tail(url))

\* a predicate that leaves the query string out
is_blocked_page_path_only(url, response_url) ==
    \E k \in 1..Len(sorry_patterns) :
        \/ Contains(BeforeQuery(url), sorry_patterns[k])
        \/ (response_url # NoUrl /\ response_url # EmptyStr
              /\ Contains(BeforeQuery(response_url), sorry_patterns[k]))

is_blocked_page(url, response_url) ==
    \E k \in 1..Len(sorry_patterns) :
        \/ Contains(url, sorry_patterns[k])
        \/ (response_url # NoUrl /\ response_url # EmptyStr
              /\ Contains(response_url, sorry_patterns[k]))

\* ------------------------------------------------------------------------
\* Page content seen by extract_search_results
\* ------------------------------------------------------------------------

\* querySelector found no element
NoElem == <<"None">>

\* A result container as the in-page script sees it: whether it has an h3,
\* the trimmed h3 text, the href of the anchor inside the h3, of the closest
\* anchor ancestor of the h3 and of the first anchor of the container (NoElem
\* when there is none), and the text the snippet selectors yield.
Container(h3, title, titleA, parentA, innerA, snippet) ==
    [h3 |-> h3, title |-> title, titleA |-> titleA, parentA |-> parentA,
     innerA |-> innerA, snippet |-> snippet]

\* An anchor of the document: its href, its trimmed text, the ancestor text.
Anchor(href, text, around) == [href |-> href, text |-> text, around |-> around]

ContainerPool ==
    { Container(TRUE,  "Rust", SiteA,  NoElem, NoElem, "the rust book"),
      Container(TRUE,  "Book", NoElem, SiteB,  NoElem, ""),
      Container(TRUE,  "Dup",  NoElem, NoElem, SiteA,  "again"),
      Container(TRUE,  "",     SiteB,  NoElem, NoElem, "untitled"),
      Container(FALSE, "",     NoElem, NoElem, SiteB,  "no heading"),
      Container(TRUE,  "Js",   NoElem, NoElem, JsHref, "script link"),
      Container(TRUE,  "Acct", GoogleNav, NoElem, NoElem, "sign in") }

AnchorPool ==
    { Anchor(SiteA, "a site", "a site with some text around it"),
      Anchor(SiteB, "b site", ""),
      Anchor(SiteB, "", "image link"),
      Anchor(GoogleNav, "Sign in", ""),
      Anchor(SupportNav, "Help", ""),
      Anchor(RegionalNav, "Settings", ""),
      Anchor(JsHref, "menu", "") }

EmptyDom == [sets |-> << <<>>, <<>>, <<>>, <<>> >>, anchors |-> << >>]

\* ------------------------------------------------------------------------
\* SearchExecutor.extract_search_results (the in-page script)
\* ------------------------------------------------------------------------

\* link lookup of one container: anchor in the title, else the closest anchor
\* ancestor of the title, else the first anchor of the container, else ''
ContainerLink(c) ==
    IF c.titleA # NoElem THEN c.titleA
    ELSE IF c.parentA # NoElem THEN c.parentA
    ELSE IF c.innerA # NoElem THEN c.innerA
    ELSE EmptyStr

RawResult(title, link, snippet) == [title |-> title, link |-> link, snippet |-> snippet]

\* a scan that never finds a link in seenUrls
SeenHas_Never(seen, link) == FALSE

\* has the link been recorded in seenUrls
SeenHas(seen, link) == link \in seen

\* one container of the structural loop; acc = [results, seen]
VisitContainer(c, acc) ==
    LET link == ContainerLink(c) IN
    IF ~c.h3 THEN acc
    ELSE IF link = EmptyStr \/ ~StartsWithHttp(link) \/ SeenHas(acc.seen, link) THEN acc
    ELSE IF c.title # "" /\ link # EmptyStr
         THEN [results |-> Append(acc.results, RawResult(c.title, link, c.snippet)),
               seen    |-> acc.seen \cup {link}]
         ELSE acc

RECURSIVE ScanContainers(_, _, _, _)
ScanContainers(cs, i, acc, maxResults) ==
    IF i > Len(cs) \/ Len(acc.results) >= maxResults THEN acc
    ELSE ScanContainers(cs, i + 1, VisitContainer(cs[i], acc), maxResults)

RECURSIVE ScanSelectorSets(_, _, _, _)
ScanSelectorSets(sets, k, acc, maxResults) ==
    IF k > Len(sets) \/ Len(acc.results) >= maxResults THEN acc
    ELSE ScanSelectorSets(sets, k + 1, ScanContainers(sets[k], 1, acc, maxResults), maxResults)

\* the anchor is filtered out by the generic scan
AnchorSkipped(a, acc) ==
    \/ a.href = EmptyStr
    \/ SeenHas(acc.seen, a.href)
    \/ Contains(a.href, <<"google", ".com/">>)
    \/ Contains(a.href, <<"accounts.", "google">>)
    \/ Contains(a.href, <<"support.", "google">>)

VisitAnchor(a, acc) ==
    IF AnchorSkipped(a, acc) THEN acc
    ELSE IF a.text = "" THEN acc
    ELSE [results |-> Append(acc.results, RawResult(a.text, a.href, a.around)),
          seen    |-> acc.seen \cup {a.href}]

\* document.querySelectorAll("a[href^='http']")
HttpAnchors(anchors) == SelectSeq(anchors, LAMBDA a : StartsWithHttp(a.href))

RECURSIVE ScanAnchors(_, _, _, _)
ScanAnchors(as, i, acc, maxResults) ==
    IF i > Len(as) \/ Len(acc.results) >= maxResults THEN acc
    ELSE ScanAnchors(as, i + 1, VisitAnchor(as[i], acc), maxResults)

\* results.slice(0, maxResults)
Slice(seq, n) == IF Len(seq) <= n THEN seq ELSE SubSeq(seq, 1, n)

extract_search_results(dom, limit) ==
    LET structural == ScanSelectorSets(dom.sets, 1, [results |-> << >>, seen |-> {}], limit)
        all == IF Len(structural.results) < limit
               THEN ScanAnchors(HttpAnchors(dom.anchors), 1, structural, limit)
               ELSE structural
    IN Slice(all.results, limit)

\* SearchExecutor.convert_to_search_results
convert_to_search_results(raw) ==
    [i \in 1..Len(raw) |-> [title |-> raw[i].title, link |-> raw[i].link, snippet |-> raw[i].snippet]]

\* ------------------------------------------------------------------------
\* CommandOptions and the defaults of google_search
\* ------------------------------------------------------------------------

\* Optional[int]: None, or an integer
None == [some |-> FALSE, v |-> 0]
Some(n) == [some |-> TRUE, v |-> n]

\* Python truthiness of an Optional[int]: None and 0 are falsy
Truthy(o) == o.some /\ o.v # 0

DefaultLimit == 10
DefaultTimeout == 60000
CliTimeout == 30000

\* limit = options.limit or 10
EffectiveLimit(o) == IF Truthy(o) THEN o.v ELSE DefaultLimit

\* timeout = options.timeout or 60000
EffectiveTimeout(o) == IF Truthy(o) THEN o.v ELSE DefaultTimeout

\* a google_search that honours the headless option of the request
use_headless_from_option(headlessOpt) == headlessOpt # "False"

\* use_headless = True: the headless option of the request is not read
use_headless(headlessOpt) == TRUE

LimitOptions == {None} \cup {Some(n) : n \in 0..MaxLimit}
TimeoutOptions == {None, Some(CliTimeout)}
HeadlessOptions == {"None", "True", "False"}

\* ------------------------------------------------------------------------
\* State
\* ------------------------------------------------------------------------

VARIABLES
    req,        \* the request: options and whether a browser was supplied
    stack,      \* activations of _perform_search_internal, innermost last
    browsers,   \* every browser handle: mode, whether this call launched it, open
    drivers,    \* every Playwright driver started by the call: running / stopped
    files,      \* persistence attempts and the files they wrote, in order
    outcome,    \* what google_search gave its caller
    hist,       \* observations about the run
    xDom,       \* page content handed to extract_search_results
    xSet,       \* selector set whose containers are being laid out
    xLimit,     \* limit handed to extract_search_results
    xResults,   \* what extract_search_results returned
    html,       \* the activation of HtmlExtractor.extract_html
    disk,       \* content of the files at the state-file and sidecar paths
    sidecar,    \* a session state being saved to and loaded from the sidecar
    blk,        \* a URL pair handed to is_blocked_page, and its answer
    waitrun,    \* the activation of wait_for_search_results
    fpc,        \* the fingerprint part of create_context
    conc,       \* two google_search calls sharing one state-file path
    exec,       \* the arguments and the run of one execute_search
    srv         \* call_tool of the protocol server waiting for google_search

vars == <<req, stack, browsers, drivers, files, outcome, hist, xDom, xSet, xLimit, xResults,
          html, disk, sidecar, blk, waitrun, fpc, conc, exec, srv>>

orchVars == <<req, stack, browsers, drivers, files, outcome, hist>>
extractVars == <<xDom, xSet, xLimit, xResults>>
moreVars == <<waitrun, fpc, conc, exec, srv>>
sideVars == <<html, disk, sidecar, blk, moreVars>>

\* the parts of the state a specification does not use
HtmlIdle == [pc |-> "idle"]
DiskIdle == << >>
SidecarIdle == [pc |-> "idle"]
BlkIdle == [pc |-> "idle"]
Idle == [pc |-> "idle"]
MoreIdle ==
    waitrun = Idle /\ fpc = Idle /\ conc = Idle /\ exec = Idle /\ srv = Idle
SideIdle ==
    html = HtmlIdle /\ disk = DiskIdle /\ sidecar = SidecarIdle /\ blk = BlkIdle /\ MoreIdle
ExtractIdle == xDom = EmptyDom /\ xSet = 0 /\ xLimit = 0 /\ xResults = << >>

NoResult == [kind |-> "none", results |-> << >>, err |-> ""]
Response(results) == [kind |-> "response", results |-> results, err |-> ""]
Raised(err) == [kind |-> "raise", results |-> << >>, err |-> err]

\* the SearchResponse of the except branch of _perform_search_with_browser
FailureTitle == "search failed"
FailureResult(err) == [title |-> FailureTitle, link |-> EmptyStr, snippet |-> err]
FailureResponse(err) == [kind |-> "response", results |-> <<FailureResult(err)>>, err |-> err]

\* one activation of _perform_search_internal and the
\* _perform_search_with_browser it calls
Frame(headless, provided, browser) ==
    [pc |-> "start", headless |-> headless, provided |-> provided,
     browser |-> browser, p |-> 0, ctx |-> "none", page |-> "none",
     url |-> EmptyStr, respUrl |-> NoUrl, budget |-> 0, err |-> "",
     raw |-> << >>, res |-> NoResult, sub |-> NoResult]

Top == stack[Len(stack)]
Running == Len(stack) >= 1 /\ outcome.kind = "none"
At(pc) == Running /\ Top.pc = pc
SetTop(f) == [stack EXCEPT ![Len(stack)] = f]

limit == EffectiveLimit(req.limit)
timeout == EffectiveTimeout(req.timeout)

Mode(headless) == IF headless THEN "headless" ELSE "headful"

HistInit ==
    [restarts |-> 0,            \* calls of restart_callback
     launches |-> << >>,        \* modes of the launch sequences entered
     blockHeadless |-> FALSE,   \* a block was detected in the headless attempt
     blockHeadful |-> FALSE,    \* a block was detected in a headful run
     navBlock |-> FALSE,        \* headless block after the initial navigation
     queryBlock |-> FALSE,      \* headless block after query execution
     waitBlock |-> FALSE,       \* headless block found by wait_for_search_results
     waitTimedOut |-> FALSE,    \* a headful wait_for_url ran out of budget
     waitCleared |-> FALSE,     \* a headful wait_for_url saw the block clear
     failed |-> FALSE,          \* some step of the call failed
     allThrew |-> FALSE,        \* all three submission strategies raised
     extracted |-> FALSE,       \* extract_search_results returned
     raw |-> << >>,             \* the results it returned, converted
     saveFailed |-> FALSE]      \* a write of save_browser_state raised

Init ==
    /\ req \in [limit : LimitOptions, timeout : TimeoutOptions,
                headless : HeadlessOptions, no_save_state : BOOLEAN,
                provided : BOOLEAN]
    /\ stack = <<Frame(use_headless(req.headless), req.provided,
                       IF req.provided THEN 1 ELSE 0)>>
    /\ browsers = IF req.provided
                  THEN <<[mode |-> "supplied", own |-> FALSE, open |-> TRUE]>>
                  ELSE << >>
    /\ drivers = << >>
    /\ files = << >>
    /\ outcome = NoResult
    /\ hist = HistInit
    /\ ExtractIdle
    /\ SideIdle

\* ------------------------------------------------------------------------
\* What the browser can do to the call
\* ------------------------------------------------------------------------

\* where page.goto(selected_domain) can land, with the URL of its response
\* (NoUrl: goto returned no response)
NavLandings ==
    { [url |-> HomeUrl,  respUrl |-> HomeUrl],
      [url |-> HomeUrl,  respUrl |-> NoUrl],
      [url |-> HomeUrl,  respUrl |-> SorryUrl],
      [url |-> SorryUrl, respUrl |-> SorryUrl] }

\* where the page can be after a submission strategy acted
SubmitUrls == {HomeUrl, ResultsUrl, SorryUrl}

\* outcome of one submission strategy: it raised, it found no control to
\* act on (strategies 2 and 3), or it navigated; url is page.url afterwards
StrategyOutcomes(canMiss) ==
    [kind : {"throw", "nav"}, url : SubmitUrls]
        \cup (IF canMiss THEN {[kind |-> "missing", url |-> EmptyStr]} ELSE {})

\* pages the result page can turn out to be
SamplePages ==
    { EmptyDom,
      [sets |-> << <<Container(TRUE, "Rust", SiteA, NoElem, NoElem, "the rust book"),
                     Container(TRUE, "Book", NoElem, SiteB, NoElem, "")>>,
                   <<Container(TRUE, "Dup", NoElem, NoElem, SiteA, "again")>>,
                   << >>, << >> >>,
       anchors |-> <<Anchor(SiteA, "a site", "a site with some text around it")>>],
      [sets |-> << << >>, << >>,
                   <<Container(TRUE, "Acct", GoogleNav, NoElem, NoElem, "sign in")>>,
                   << >> >>,
       anchors |-> <<Anchor(GoogleNav, "Sign in", ""), Anchor(SiteB, "b site", ""),
                     Anchor(SiteA, "a site", "")>>] }

\* ------------------------------------------------------------------------
\* SearchExecutor.execute_search
\* ------------------------------------------------------------------------

\* a strategy that raised counts as having submitted the query
SubmitStep_ThrowCounts(st, o) ==
    IF st.executed THEN st
    ELSE IF o.kind = "missing" THEN [executed |-> FALSE, url |-> st.url]
    ELSE [executed |-> ~is_blocked_page(o.url, NoUrl), url |-> o.url]

\* one submission strategy, run only while search_executed is False
SubmitStep(st, o) ==
    IF st.executed THEN st
    ELSE IF o.kind = "throw" THEN [executed |-> FALSE, url |-> o.url]
    ELSE IF o.kind = "missing" THEN [executed |-> FALSE, url |-> st.url]
    ELSE [executed |-> ~is_blocked_page(o.url, NoUrl), url |-> o.url]

\* an execute_search that returns normally when every strategy was blocked,
\* leaving the decision to the caller's block check
execute_search_blocked_returns(url0, input, o1, o2, o3) ==
    IF input = "nobox" THEN [ok |-> FALSE, err |-> "SearchBoxNotFound", url |-> url0]
    ELSE IF input = "throws" THEN [ok |-> FALSE, err |-> "InputFailed", url |-> url0]
    ELSE LET s0 == [executed |-> FALSE, url |-> url0]
             s3 == SubmitStep(SubmitStep(SubmitStep(s0, o1), o2), o3)
         IN IF s3.executed \/ is_blocked_page(s3.url, NoUrl)
            THEN [ok |-> TRUE, err |-> "", url |-> s3.url]
            ELSE [ok |-> FALSE, err |-> "AllStrategiesFailed", url |-> s3.url]

\* input: "nobox" no search box selector matched, "throws" clicking, clearing
\* or typing raised, "ok" the query was typed
execute_search(url0, input, o1, o2, o3) ==
    IF input = "nobox" THEN [ok |-> FALSE, err |-> "SearchBoxNotFound", url |-> url0]
    ELSE IF input = "throws" THEN [ok |-> FALSE, err |-> "InputFailed", url |-> url0]
    ELSE LET s0 == [executed |-> FALSE, url |-> url0]
             s3 == SubmitStep(SubmitStep(SubmitStep(s0, o1), o2), o3)
         IN IF s3.executed THEN [ok |-> TRUE, err |-> "", url |-> s3.url]
            ELSE IF is_blocked_page(s3.url, NoUrl)
                 THEN [ok |-> FALSE, err |-> "AllStrategiesBlocked", url |-> s3.url]
                 ELSE [ok |-> FALSE, err |-> "AllStrategiesFailed", url |-> s3.url]

\* ------------------------------------------------------------------------
\* SearchExecutor.wait_for_search_results: the diagnosis when no selector
\* became visible
\* ------------------------------------------------------------------------

\* every failure is reported as a block
wait_failure_kind_always_block(current_url) == "BlockDetected"

\* is_blocked_during_results decides which exception is raised
wait_failure_kind(current_url) ==
    IF is_blocked_page(current_url, NoUrl) THEN "BlockDetected" ELSE "ResultsNotFound"

\* ------------------------------------------------------------------------
\* Handles and persistence
\* ------------------------------------------------------------------------

\* a close that leaves the browser running
CloseBrowser_Noop(bs, i) == bs

CloseBrowser(bs, i) == [bs EXCEPT ![i].open = FALSE]

\* the browser is closed whoever launched it
CloseAlways(bs, f) == CloseBrowser(bs, f.browser)

\* "if not browser_was_provided: close the browser"
CloseUnlessProvided(bs, f) == IF f.provided THEN bs ELSE CloseBrowser(bs, f.browser)

\* the context is left open
ClosePageAndContext_PageOnly(f) == [f EXCEPT !.page = "closed"]

\* page.close(); context.close()
ClosePageAndContext(f) == [f EXCEPT !.page = "closed", !.ctx = "closed"]

\* the headless browser is left open when the re-run starts
BrowsersAfterNavBlock_Leak(bs, i) == bs

\* engine.py line 190: browser.close() before restart_callback()
BrowsersAfterNavBlock(bs, i) == CloseBrowser(bs, i)

\* a restart that stays headless
restart_headless_again == TRUE

\* the headless argument restart_callback passes to _perform_search_internal
restart_headless == FALSE

\* a wait budget of the plain timeout
wait_for_url_budget_single(t) == t

\* timeout=timeout * 2 of page.wait_for_url
wait_for_url_budget(t) == t * 2

\* an attempt that writes the sidecar whatever became of the storage state
SaveOutcomes_SidecarRegardless(ctx) ==
    IF req.no_save_state THEN {<< >>}
    ELSE IF ctx # "open" THEN {<<"storage_failed", "sidecar">>}
    ELSE {<<"storage_failed", "sidecar">>, <<"storage", "sidecar_failed">>,
          <<"storage", "sidecar">>}

\* an attempt that pays no attention to no_save_state
SaveOutcomes_Always(ctx) ==
    IF ctx # "open" THEN {<<"storage_failed">>}
    ELSE {<<"storage_failed">>, <<"storage", "sidecar_failed">>, <<"storage", "sidecar">>}

\* what a persistence attempt can log: nothing when suppressed; otherwise
\* context.storage_state raises (always so without an open context), or the
\* storage state is written and then the sidecar write raises or succeeds
SaveOutcomes(ctx) ==
    IF req.no_save_state THEN {<< >>}
    ELSE IF ctx # "open" THEN {<<"storage_failed">>}
    ELSE {<<"storage_failed">>, <<"storage", "sidecar_failed">>, <<"storage", "sidecar">>}

\* the attempt ended with a write that raised
SaveFailed(w) == w # << >> /\ w[Len(w)] \in {"storage_failed", "sidecar_failed"}

\* ------------------------------------------------------------------------
\* _perform_search_internal: launch
\* ------------------------------------------------------------------------

\* entry: a supplied browser is used as it is, otherwise the launch sequence
\* for the requested mode begins
Start ==
    /\ At("start")
    /\ IF Top.provided
       THEN /\ stack' = SetTop([Top EXCEPT !.pc = "create_context"])
            /\ hist' = hist
       ELSE /\ stack' = SetTop([Top EXCEPT !.pc = "pw_start"])
            /\ hist' = [hist EXCEPT !.launches = Append(@, Mode(Top.headless))]
    /\ UNCHANGED <<req, browsers, drivers, files, outcome, extractVars, sideVars>>

\* p = await async_playwright().start()
PwStart ==
    /\ At("pw_start")
    /\ \/ /\ drivers' = Append(drivers, "running")
          /\ stack' = SetTop([Top EXCEPT !.pc = "launch", !.p = Len(drivers) + 1])
          /\ hist' = hist
       \/ /\ drivers' = drivers
          /\ stack' = SetTop([Top EXCEPT !.pc = "ret", !.res = Raised("DriverStartFailed")])
          /\ hist' = [hist EXCEPT !.failed = TRUE]
    /\ UNCHANGED <<req, browsers, files, outcome, extractVars, sideVars>>

\* browser_manager.launch_browser: starts a driver of its own, then launches
\* chromium; when it raises, the finally stops p and the error leaves
\* _perform_search_internal
LaunchBrowser ==
    /\ At("launch")
    /\ \/ /\ drivers' = Append(drivers, "running")
          /\ browsers' = Append(browsers, [mode |-> Mode(Top.headless), own |-> TRUE, open |-> TRUE])
          /\ stack' = SetTop([Top EXCEPT !.pc = "create_context", !.browser = Len(browsers) + 1])
          /\ hist' = hist
       \/ \E started \in BOOLEAN :
          /\ drivers' = [(IF started THEN Append(drivers, "running") ELSE drivers)
                            EXCEPT ![Top.p] = "stopped"]
          /\ browsers' = browsers
          /\ stack' = SetTop([Top EXCEPT !.pc = "ret", !.res = Raised("LaunchFailed")])
          /\ hist' = [hist EXCEPT !.failed = TRUE]
    /\ UNCHANGED <<req, files, outcome, extractVars, sideVars>>

\* ------------------------------------------------------------------------
\* _perform_search_with_browser: the try block
\* ------------------------------------------------------------------------

Fail(f, err) == [f EXCEPT !.pc = "except", !.err = err]

CreateContext ==
    /\ At("create_context")
    /\ \/ /\ browsers[Top.browser].open
          /\ stack' = SetTop([Top EXCEPT !.pc = "create_page", !.ctx = "open"])
          /\ hist' = hist
       \/ /\ stack' = SetTop(Fail(Top, "ContextFailed"))
          /\ hist' = [hist EXCEPT !.failed = TRUE]
    /\ UNCHANGED <<req, browsers, drivers, files, outcome, extractVars, sideVars>>

CreatePage ==
    /\ At("create_page")
    /\ \/ /\ stack' = SetTop([Top EXCEPT !.pc = "goto", !.page = "open"])
          /\ hist' = hist
       \/ /\ stack' = SetTop(Fail(Top, "PageFailed"))
          /\ hist' = [hist EXCEPT !.failed = TRUE]
    /\ UNCHANGED <<req, browsers, drivers, files, outcome, extractVars, sideVars>>

\* response = await page.goto(selected_domain, timeout=timeout, ...)
Goto ==
    /\ At("goto")
    /\ \/ \E l \in NavLandings :
            /\ stack' = SetTop([Top EXCEPT !.pc = "check_nav", !.url = l.url, !.respUrl = l.respUrl])
            /\ hist' = hist
       \/ /\ stack' = SetTop(Fail(Top, "NavigationTimeout"))
          /\ hist' = [hist EXCEPT !.failed = TRUE]
    /\ UNCHANGED <<req, browsers, drivers, files, outcome, extractVars, sideVars>>

\* return await restart_callback(): the caller waits, a new activation of
\* _perform_search_internal begins without a supplied browser
Restart(f) ==
    Append(SetTop([f EXCEPT !.pc = "await_restart"]), Frame(restart_headless, FALSE, 0))

\* the block check after the initial navigation (lines 174-200)
CheckNav ==
    /\ At("check_nav")
    /\ IF is_blocked_page(Top.url, Top.respUrl)
       THEN IF Top.headless
            THEN IF Top.provided
                 THEN /\ stack' = SetTop(Fail(ClosePageAndContext(Top), "NeedHeadful"))
                      /\ browsers' = browsers
                      /\ hist' = [hist EXCEPT !.blockHeadless = TRUE, !.navBlock = TRUE,
                                              !.failed = TRUE]
                 ELSE /\ stack' = Restart(ClosePageAndContext(Top))
                      /\ browsers' = BrowsersAfterNavBlock(browsers, Top.browser)
                      /\ hist' = [hist EXCEPT !.blockHeadless = TRUE, !.navBlock = TRUE,
                                              !.restarts = @ + 1]
            ELSE /\ stack' = SetTop([Top EXCEPT !.pc = "wait_url_nav",
                                                !.budget = wait_for_url_budget(timeout)])
                 /\ browsers' = browsers
                 /\ hist' = [hist EXCEPT !.blockHeadful = TRUE]
       ELSE /\ stack' = SetTop([Top EXCEPT !.pc = "execute_search"])
            /\ browsers' = browsers
            /\ hist' = hist
    /\ UNCHANGED <<req, drivers, files, outcome, extractVars, sideVars>>

\* page.wait_for_url(not blocked, timeout * 2) in a headful run: the block
\* clears within the budget, or the wait times out
WaitUrl(at, next) ==
    /\ At(at)
    /\ \/ \E u \in {HomeUrl, ResultsUrl} :
            /\ ~is_blocked_page(u, NoUrl)
            /\ stack' = SetTop([Top EXCEPT !.pc = next, !.url = u])
            /\ hist' = [hist EXCEPT !.waitCleared = TRUE]
       \/ /\ stack' = SetTop(Fail(Top, "WaitUrlTimeout"))
          /\ hist' = [hist EXCEPT !.waitTimedOut = TRUE, !.failed = TRUE]
    /\ UNCHANGED <<req, browsers, drivers, files, outcome, extractVars, sideVars>>

WaitUrlNav == WaitUrl("wait_url_nav", "execute_search")

\* await search_executor.execute_search(page, query)
ExecuteSearch ==
    /\ At("execute_search")
    /\ \E input \in {"nobox", "throws", "ok"}, o1 \in StrategyOutcomes(FALSE),
          o2 \in StrategyOutcomes(TRUE), o3 \in StrategyOutcomes(TRUE) :
        LET r == execute_search(Top.url, input, o1, o2, o3) IN
        LET threw == input = "ok" /\ o1.kind = "throw" /\ o2.kind = "throw"
                                   /\ o3.kind = "throw" IN
        IF r.ok
        THEN /\ stack' = SetTop([Top EXCEPT !.pc = "stabilise", !.url = r.url])
             /\ hist' = [hist EXCEPT !.allThrew = @ \/ threw]
        ELSE /\ stack' = SetTop(Fail([Top EXCEPT !.url = r.url], r.err))
             /\ hist' = [hist EXCEPT !.failed = TRUE, !.allThrew = @ \/ threw]
    /\ UNCHANGED <<req, browsers, drivers, files, outcome, extractVars, sideVars>>

\* wait_for_load_state("networkidle") and the 3 s pause; the page may have
\* been redirected by the time search_url is read
Stabilise ==
    /\ At("stabilise")
    /\ \/ \E u \in {Top.url, ResultsUrl, SorryUrl} :
            /\ stack' = SetTop([Top EXCEPT !.pc = "check_query", !.url = u])
            /\ hist' = hist
       \/ /\ stack' = SetTop(Fail(Top, "LoadTimeout"))
          /\ hist' = [hist EXCEPT !.failed = TRUE]
    /\ UNCHANGED <<req, browsers, drivers, files, outcome, extractVars, sideVars>>

\* the block check after query execution (lines 222-240)
CheckQuery ==
    /\ At("check_query")
    /\ IF is_blocked_page(Top.url, NoUrl)
       THEN IF Top.headless
            THEN /\ stack' = Restart(ClosePageAndContext(Top))
                 /\ browsers' = CloseUnlessProvided(browsers, Top)
                 /\ hist' = [hist EXCEPT !.blockHeadless = TRUE, !.queryBlock = TRUE,
                                         !.restarts = @ + 1]
            ELSE /\ stack' = SetTop([Top EXCEPT !.pc = "wait_url_query",
                                                !.budget = wait_for_url_budget(timeout)])
                 /\ browsers' = browsers
                 /\ hist' = [hist EXCEPT !.blockHeadful = TRUE]
       ELSE /\ stack' = SetTop([Top EXCEPT !.pc = "wait_results"])
            /\ browsers' = browsers
            /\ hist' = hist
    /\ UNCHANGED <<req, drivers, files, outcome, extractVars, sideVars>>

WaitUrlQuery == WaitUrl("wait_url_query", "wait_results")

\* search_executor.wait_for_search_results: a result container becomes
\* visible, or none does and the current URL decides the error
WaitResults ==
    /\ At("wait_results")
    /\ \/ /\ stack' = SetTop([Top EXCEPT !.pc = "extract"])
          /\ hist' = hist
       \/ \E u \in {Top.url, SorryUrl} :
            LET kind == wait_failure_kind(u) IN
            /\ stack' = SetTop(Fail([Top EXCEPT !.url = u], kind))
            /\ hist' = IF kind = "BlockDetected"
                       THEN [hist EXCEPT !.failed = TRUE,
                                         !.waitBlock = @ \/ Top.headless,
                                         !.blockHeadful = @ \/ ~Top.headless]
                       ELSE [hist EXCEPT !.failed = TRUE]
    /\ UNCHANGED <<req, browsers, drivers, files, outcome, extractVars, sideVars>>

\* extract_search_results and convert_to_search_results
Extract ==
    /\ At("extract")
    /\ \/ \E page \in SamplePages :
            LET raw == convert_to_search_results(extract_search_results(page, limit)) IN
            /\ stack' = SetTop([Top EXCEPT !.pc = "save", !.raw = raw])
            /\ hist' = [hist EXCEPT !.extracted = TRUE, !.raw = raw]
       \/ /\ stack' = SetTop(Fail(Top, "EvaluateFailed"))
          /\ hist' = [hist EXCEPT !.failed = TRUE]
    /\ UNCHANGED <<req, browsers, drivers, files, outcome, extractVars, sideVars>>

\* a write that raises reaches the except block of the caller
SaveState_Raises ==
    /\ At("save")
    /\ \E w \in SaveOutcomes(Top.ctx) :
        /\ files' = files \o w
        /\ hist' = [hist EXCEPT !.saveFailed = @ \/ SaveFailed(w),
                                !.failed = @ \/ SaveFailed(w)]
        /\ stack' = IF SaveFailed(w) THEN SetTop(Fail(Top, "PersistenceError"))
                    ELSE SetTop([Top EXCEPT !.pc = "close"])
    /\ UNCHANGED <<req, browsers, drivers, outcome, extractVars, sideVars>>

\* browser_manager.save_browser_state: what its writes raise is caught and
\* logged inside it
SaveState ==
    /\ At("save")
    /\ \E w \in SaveOutcomes(Top.ctx) :
        /\ files' = files \o w
        /\ hist' = [hist EXCEPT !.saveFailed = @ \/ SaveFailed(w)]
    /\ stack' = SetTop([Top EXCEPT !.pc = "close"])
    /\ UNCHANGED <<req, browsers, drivers, outcome, extractVars, sideVars>>

\* safe_close_browser unless the browser was supplied, then
\* return SearchResponse(query, search_results)
CloseAndReturn ==
    /\ At("close")
    /\ browsers' = CloseUnlessProvided(browsers, Top)
    /\ stack' = SetTop([Top EXCEPT !.pc = "finally", !.res = Response(Top.raw)])
    /\ UNCHANGED <<req, drivers, files, outcome, hist, extractVars, sideVars>>

\* ------------------------------------------------------------------------
\* _perform_search_with_browser: the except block
\* ------------------------------------------------------------------------

\* an except block that goes straight to its response
ExceptSave_NoAttempt ==
    /\ At("except")
    /\ stack' = SetTop([Top EXCEPT !.pc = "except_close"])
    /\ UNCHANGED <<req, browsers, drivers, files, outcome, hist, extractVars, sideVars>>

\* the best-effort persistence of the except block (lines 269-296); a
\* context that was never created or is closed makes storage_state raise,
\* which is caught
ExceptSave ==
    /\ At("except")
    /\ \E w \in SaveOutcomes(Top.ctx) : files' = files \o w
    /\ stack' = SetTop([Top EXCEPT !.pc = "except_close"])
    /\ UNCHANGED <<req, browsers, drivers, outcome, hist, extractVars, sideVars>>

\* safe_close_browser unless the browser was supplied, then the
\* SearchResponse with the single failure result (lines 298-314)
ExceptReturn ==
    /\ At("except_close")
    /\ browsers' = CloseUnlessProvided(browsers, Top)
    /\ stack' = SetTop([Top EXCEPT !.pc = "finally", !.res = FailureResponse(Top.err)])
    /\ UNCHANGED <<req, drivers, files, outcome, hist, extractVars, sideVars>>

\* what `except Exception` does not catch
BaseExceptions == {"CancelledError"}

\* restart_callback() came back: its response is returned as it is, its
\* exception lands in the except block of the waiting activation unless it
\* is no Exception
AwaitRestart ==
    /\ At("await_restart")
    /\ Top.sub.kind # "none"
    /\ IF Top.sub.kind = "response" \/ Top.sub.err \in BaseExceptions
       THEN stack' = SetTop([Top EXCEPT !.pc = "finally", !.res = Top.sub])
       ELSE stack' = SetTop(Fail(Top, Top.sub.err))
    /\ UNCHANGED <<req, browsers, drivers, files, outcome, hist, extractVars, sideVars>>

\* ------------------------------------------------------------------------
\* _perform_search_internal: the finally clauses and the return
\* ------------------------------------------------------------------------

\* finally: browser.close() and safe_stop_playwright(p) when the activation
\* launched the browser; nothing for a supplied browser
Finally ==
    /\ At("finally")
    /\ IF Top.provided
       THEN UNCHANGED <<browsers, drivers>>
       ELSE /\ browsers' = CloseBrowser(browsers, Top.browser)
            /\ drivers' = [drivers EXCEPT ![Top.p] = "stopped"]
    /\ stack' = SetTop([Top EXCEPT !.pc = "ret"])
    /\ UNCHANGED <<req, files, outcome, hist, extractVars, sideVars>>

\* the activation ends: its response or exception goes to the waiting
\* activation, or to the caller of google_search
Return ==
    /\ At("ret")
    /\ IF Len(stack) = 1
       THEN /\ outcome' = Top.res
            /\ stack' = SetTop([Top EXCEPT !.pc = "done"])
       ELSE /\ outcome' = outcome
            /\ stack' = [SubSeq(stack, 1, Len(stack) - 1)
                            EXCEPT ![Len(stack) - 1].sub = Top.res]
    /\ UNCHANGED <<req, browsers, drivers, files, hist, extractVars, sideVars>>

Done == outcome.kind # "none"

Next ==
    \/ Start
    \/ PwStart
    \/ LaunchBrowser
    \/ CreateContext
    \/ CreatePage
    \/ Goto
    \/ CheckNav
    \/ WaitUrlNav
    \/ ExecuteSearch
    \/ Stabilise
    \/ CheckQuery
    \/ WaitUrlQuery
    \/ WaitResults
    \/ Extract
    \/ SaveState
    \/ CloseAndReturn
    \/ ExceptSave
    \/ ExceptReturn
    \/ AwaitRestart
    \/ Finally
    \/ Return

Spec == Init /\ [][Next]_vars

\* every await of the call completes or times out: a step that can be
\* taken is eventually taken
SpecLive == Init /\ [][Next]_vars /\ WF_vars(Next)

\* ------------------------------------------------------------------------
\* extract_search_results on every page of up to MaxNodes nodes
\* ------------------------------------------------------------------------

NumSelectorSets == Len(EmptyDom.sets)

RECURSIVE SumLen(_, _)
SumLen(seqs, k) == IF k = 0 THEN 0 ELSE Len(seqs[k]) + SumLen(seqs, k - 1)

Nodes(dom) == SumLen(dom.sets, Len(dom.sets)) + Len(dom.anchors)

InitExtract ==
    /\ req = [limit |-> None, timeout |-> None, headless |-> "None",
              no_save_state |-> TRUE, provided |-> FALSE]
    /\ stack = << >>
    /\ browsers = << >>
    /\ drivers = << >>
    /\ files = << >>
    /\ outcome = NoResult
    /\ hist = HistInit
    /\ xDom = EmptyDom
    /\ xSet = 1
    /\ xLimit \in {EffectiveLimit(o) : o \in LimitOptions}
    /\ xResults = << >>
    /\ SideIdle

\* the page gets one more container matching the selector set being laid out
XAddContainer ==
    /\ xSet \in 1..NumSelectorSets
    /\ Nodes(xDom) < MaxNodes
    /\ \E c \in ContainerPool : xDom' = [xDom EXCEPT !.sets[xSet] = Append(@, c)]
    /\ UNCHANGED <<xSet, xLimit, xResults, orchVars, sideVars>>

\* go on with the next selector set, after the last one with the anchors
XNextSet ==
    /\ xSet \in 1..NumSelectorSets
    /\ xSet' = xSet + 1
    /\ UNCHANGED <<xDom, xLimit, xResults, orchVars, sideVars>>

\* the page gets one more anchor
XAddAnchor ==
    /\ xSet = NumSelectorSets + 1
    /\ Nodes(xDom) < MaxNodes
    /\ \E a \in AnchorPool : xDom' = [xDom EXCEPT !.anchors = Append(@, a)]
    /\ UNCHANGED <<xSet, xLimit, xResults, orchVars, sideVars>>

\* results = await page.evaluate(script, limit)
XExtract ==
    /\ xSet = NumSelectorSets + 1
    /\ xResults' = extract_search_results(xDom, xLimit)
    /\ xSet' = NumSelectorSets + 2
    /\ UNCHANGED <<xDom, xLimit, orchVars, sideVars>>

Extracted == xSet = NumSelectorSets + 2

NextExtract ==
    \/ XAddContainer
    \/ XNextSet
    \/ XAddAnchor
    \/ XExtract

SpecExtract == InitExtract /\ [][NextExtract]_vars

\* ------------------------------------------------------------------------
\* HtmlExtractor.extract_html, called by get_google_search_page_html
\* ------------------------------------------------------------------------

\* the value None of output_path
NoPath == <<"None">>

\* output_path as the caller can give it: none, a directory or a name
\* without a suffix, a file name ending in .html, one ending in .htm
OutputPaths ==
    { NoPath,
      <<"out">>,
      <<"out", "/", "page", ".html">>,
      <<"out", "/", "page", ".htm">> }

\* f"{sanitized_query}-{timestamp}.html"
GeneratedName == <<"rust", "-", "2026-01-01T00-00-00", ".html">>

\* output_path.is_dir() or not output_path.suffix
IsDirOrNoSuffix(path) == path[Len(path)] \notin {".html", ".htm"}

\* the file the sanitised HTML is written to (lines 127-156)
html_output_path(output_path) ==
    IF output_path = NoPath THEN <<"./google-search-html", "/">> \o GeneratedName
    ELSE IF IsDirOrNoSuffix(output_path) THEN output_path \o <<"/">> \o GeneratedName
    ELSE output_path

\* str(output_path).replace('.html', '.png')
screenshot_file_path(output_path) == Replace(output_path, ".html", <<".png">>)

HtmlResponse(url, saved_path, screenshot_path) ==
    [kind |-> "html", results |-> << >>, err |-> "", url |-> url,
     saved_path |-> saved_path, screenshot_path |-> screenshot_path]

\* raise Exception(f"获取Google搜索页面HTML失败: {str(error)}")
Wrapped(err) == [kind |-> "raise", results |-> << >>, err |-> err, wrapped |-> TRUE]

\* the activation as extract_html is entered
HtmlStart(save_to_file, output_path) ==
    [pc |-> "h_launch", save_to_file |-> save_to_file, output_path |-> output_path,
     browser |-> 0, ctx |-> "none", page |-> "none", url |-> EmptyStr,
     saved_path |-> NoPath, screenshot_path |-> NoPath, written |-> << >>,
     err |-> "", res |-> NoResult]

HAt(pc) == html.pc = pc /\ outcome.kind = "none"

HFail(err) == [html EXCEPT !.pc = "h_except", !.err = err]

InitHtml ==
    /\ req \in [limit : {None}, timeout : TimeoutOptions, headless : HeadlessOptions,
                no_save_state : BOOLEAN, provided : {FALSE}]
    /\ stack = << >>
    /\ browsers = << >>
    /\ drivers = << >>
    /\ files = << >>
    /\ outcome = NoResult
    /\ hist = HistInit
    /\ ExtractIdle
    /\ html \in {HtmlStart(f, o) : f \in BOOLEAN, o \in OutputPaths}
    /\ disk = DiskIdle
    /\ sidecar = SidecarIdle
    /\ blk = BlkIdle
    /\ MoreIdle

\* async with async_playwright() as p: p.chromium.launch(headless=True, ...);
\* both are outside the try, what they raise leaves extract_html as it is
HLaunch ==
    /\ HAt("h_launch")
    /\ \/ /\ drivers' = Append(drivers, "running")
          /\ browsers' = Append(browsers, [mode |-> Mode(TRUE), own |-> TRUE, open |-> TRUE])
          /\ html' = [html EXCEPT !.pc = "h_context", !.browser = Len(browsers) + 1]
          /\ outcome' = outcome
       \/ /\ drivers' = Append(drivers, "stopped")
          /\ browsers' = browsers
          /\ html' = [html EXCEPT !.pc = "h_done"]
          /\ outcome' = Raised("LaunchFailed")
       \/ /\ UNCHANGED <<drivers, browsers>>
          /\ html' = [html EXCEPT !.pc = "h_done"]
          /\ outcome' = Raised("DriverStartFailed")
    /\ UNCHANGED <<req, stack, files, hist, extractVars, disk, sidecar, blk, moreVars>>

\* context = await browser.new_context(); page = await context.new_page()
HContext ==
    /\ HAt("h_context")
    /\ \/ html' = [html EXCEPT !.pc = "h_goto", !.ctx = "open", !.page = "open"]
       \/ html' = HFail("ContextFailed")
       \/ html' = [HFail("PageFailed") EXCEPT !.ctx = "open"]
    /\ UNCHANGED <<orchVars, extractVars, disk, sidecar, blk, moreVars>>

\* page.goto(selected_domain, timeout=timeout, wait_until="networkidle")
HGoto ==
    /\ HAt("h_goto")
    /\ \/ \E u \in {HomeUrl, SorryUrl} : html' = [html EXCEPT !.pc = "h_query", !.url = u]
       \/ html' = HFail("NavigationTimeout")
    /\ UNCHANGED <<orchVars, extractVars, disk, sidecar, blk, moreVars>>

\* wait_for_selector of the query input, click, type, Enter, then the waits
\* for the load state; final_url = page.url, whatever page that is
HQuery ==
    /\ HAt("h_query")
    /\ \/ \E u \in {ResultsUrl, SorryUrl} : html' = [html EXCEPT !.pc = "h_file", !.url = u]
       \/ html' = HFail("SearchBoxNotFound")
       \/ html' = HFail("LoadTimeout")
    /\ UNCHANGED <<orchVars, extractVars, disk, sidecar, blk, moreVars>>

\* page.content(), the clean-up, and with save_to_file the HTML file and
\* the screenshot (lines 114-172)
HFile ==
    /\ HAt("h_file")
    /\ IF html.save_to_file
       THEN LET path == html_output_path(html.output_path)
                shot == screenshot_file_path(path) IN
            \/ html' = [html EXCEPT !.pc = "h_save", !.saved_path = path,
                                    !.screenshot_path = shot,
                                    !.written = <<path, shot>>]
            \/ html' = [HFail("ScreenshotFailed") EXCEPT !.saved_path = path,
                                                         !.written = <<path>>]
            \/ html' = HFail("WriteFailed")
       ELSE \/ html' = [html EXCEPT !.pc = "h_save"]
            \/ html' = HFail("ContentFailed")
    /\ UNCHANGED <<orchVars, extractVars, disk, sidecar, blk, moreVars>>

\* the persistence block (lines 174-208), then return HtmlResponse(...)
HSave ==
    /\ HAt("h_save")
    /\ \E w \in SaveOutcomes(html.ctx) : files' = files \o w
    /\ html' = [html EXCEPT !.pc = "h_finally",
                            !.res = HtmlResponse(html.url, html.saved_path,
                                                 html.screenshot_path)]
    /\ UNCHANGED <<req, stack, browsers, drivers, outcome, hist, extractVars,
                   disk, sidecar, blk, moreVars>>

\* an except block that returns a response built from what was reached
HExcept_ReturnsResponse ==
    /\ HAt("h_except")
    /\ html' = [html EXCEPT !.pc = "h_finally",
                            !.res = HtmlResponse(html.url, html.saved_path,
                                                 html.screenshot_path)]
    /\ UNCHANGED <<orchVars, extractVars, disk, sidecar, blk, moreVars>>

\* except Exception as error: raise Exception(...)
HExcept ==
    /\ HAt("h_except")
    /\ html' = [html EXCEPT !.pc = "h_finally", !.res = Wrapped(html.err)]
    /\ UNCHANGED <<orchVars, extractVars, disk, sidecar, blk, moreVars>>

\* finally: await browser.close(); leaving the async with stops the driver
HFinally ==
    /\ HAt("h_finally")
    /\ browsers' = CloseBrowser(browsers, html.browser)
    /\ drivers' = [drivers EXCEPT ![Len(drivers)] = "stopped"]
    /\ outcome' = html.res
    /\ html' = [html EXCEPT !.pc = "h_done"]
    /\ UNCHANGED <<req, stack, files, hist, extractVars, disk, sidecar, blk, moreVars>>

NextHtml ==
    \/ HLaunch
    \/ HContext
    \/ HGoto
    \/ HQuery
    \/ HFile
    \/ HSave
    \/ HExcept
    \/ HFinally

SpecHtml == InitHtml /\ [][NextHtml]_vars

\* ------------------------------------------------------------------------
\* The sidecar: save_browser_state followed by load_saved_state
\* ------------------------------------------------------------------------

\* Optional[str] and Optional[FingerprintConfig]
NoStr == [some |-> FALSE, v |-> ""]
Str(x) == [some |-> TRUE, v |-> x]
NoFingerprint == [some |-> FALSE]
Fp(c) == [some |-> TRUE, v |-> c]

\* the fields of the dataclass FingerprintConfig
FingerprintFields ==
    {"device_name", "locale", "timezone_id", "color_scheme", "reduced_motion",
     "forced_colors"}

\* the dataclass SavedState
SavedState(fingerprint, google_domain) ==
    [fingerprint |-> fingerprint, google_domain |-> google_domain]

EmptySavedState == SavedState(NoFingerprint, NoStr)

\* JSON values: null, strings, objects as sets of <<key, value>> members; a
\* file that does not parse is Garbage
JNull == [t |-> "null"]
JStr(x) == [t |-> "str", s |-> x]
JObj(members) == [t |-> "obj", kv |-> members]
Garbage == [t |-> "garbage"]

\* dict.get(key): the value of the member, None when there is none
JGet(obj, key) ==
    IF \E m \in obj.kv : m[1] = key
    THEN (CHOOSE m \in obj.kv : m[1] = key)[2]
    ELSE JNull

JKeys(obj) == {m[1] : m \in obj.kv}

\* truthiness of a loaded value: None, "" and {} are falsy
JTruthy(j) ==
    CASE j.t = "null" -> FALSE
      [] j.t = "str" -> j.s # ""
      [] j.t = "obj" -> j.kv # {}
      [] OTHER -> TRUE

\* json.dump of an Optional[str]
JOfStr(o) == IF o.some THEN JStr(o.v) ELSE JNull

\* the sidecar without the domain
fingerprint_data_without_domain(saved_state) ==
    JObj({ <<"fingerprint",
             IF saved_state.fingerprint.some
             THEN JObj({<<f, JStr(saved_state.fingerprint.v[f])>> : f \in FingerprintFields})
             ELSE JNull>>,
           <<"google_domain", JNull>> })

\* the dict save_browser_state dumps into the sidecar (lines 363-373)
fingerprint_data(saved_state) ==
    JObj({ <<"fingerprint",
             IF saved_state.fingerprint.some
             THEN JObj({ <<"device_name", JStr(saved_state.fingerprint.v.device_name)>>,
                         <<"locale", JStr(saved_state.fingerprint.v.locale)>>,
                         <<"timezone_id", JStr(saved_state.fingerprint.v.timezone_id)>>,
                         <<"color_scheme", JStr(saved_state.fingerprint.v.color_scheme)>>,
                         <<"reduced_motion", JStr(saved_state.fingerprint.v.reduced_motion)>>,
                         <<"forced_colors", JStr(saved_state.fingerprint.v.forced_colors)>> })
             ELSE JNull>>,
           <<"google_domain", JOfStr(saved_state.google_domain)>> })

\* fingerprint_file = state_file.replace(".json", "-fingerprint.json")
fingerprint_file_path(state_file) ==
    Replace(state_file, ".json", <<"-fingerprint", ".json">>)

\* FingerprintConfig(**d) raises unless d is a dict whose keys are exactly
\* the six fields
FingerprintConfigAccepts(j) == j.t = "obj" /\ JKeys(j) = FingerprintFields

\* SavedState(fingerprint=..., google_domain=...) of lines 404-407, for a
\* parsed sidecar on which nothing raises
SavedStateOf(data) ==
    LET fp == JGet(data, "fingerprint")
        dom == JGet(data, "google_domain") IN
    SavedState(IF JTruthy(fp) THEN Fp([f \in FingerprintFields |-> JGet(fp, f).s])
               ELSE NoFingerprint,
               IF dom.t = "str" THEN Str(dom.s) ELSE NoStr)

\* whether parsing the sidecar or building the SavedState raises inside the
\* try of lines 401-410
SidecarRaises(content) ==
    \/ content.t # "obj"
    \/ LET fp == JGet(content, "fingerprint") IN
          JTruthy(fp) /\ ~FingerprintConfigAccepts(fp)

\* a load that reads the sidecar whether or not the state file exists
load_saved_state_sidecar_alone(d, state_file) ==
    LET fingerprint_file == fingerprint_file_path(state_file)
        readable == /\ fingerprint_file \in DOMAIN d
                    /\ ~SidecarRaises(d[fingerprint_file])
    IN [storage_state |-> IF state_file \in DOMAIN d THEN state_file ELSE NoPath,
        saved_state |-> IF readable THEN SavedStateOf(d[fingerprint_file])
                        ELSE EmptySavedState,
        fingerprint_file |-> fingerprint_file]

load_saved_state(d, state_file) ==
    LET fingerprint_file == fingerprint_file_path(state_file)
        exists == state_file \in DOMAIN d
        readable == /\ exists
                    /\ fingerprint_file \in DOMAIN d
                    /\ ~SidecarRaises(d[fingerprint_file])
    IN [storage_state |-> IF exists THEN state_file ELSE NoPath,
        saved_state |-> IF readable THEN SavedStateOf(d[fingerprint_file])
                        ELSE EmptySavedState,
        fingerprint_file |-> fingerprint_file]

\* the file at path holds content afterwards
WriteFile(d, path, content) ==
    [q \in (DOMAIN d) \cup {path} |-> IF q = path THEN content ELSE d[q]]

\* what context.storage_state(path=state_file) leaves in the file
StorageContent == JObj({<<"cookies", JStr("sid")>>, <<"origins", JStr("")>>})

\* state-file paths: the default, one without ".json", one with ".json"
\* in a directory name as well
StatePaths ==
    { <<"./browser-state", ".json">>,
      <<"./state">>,
      <<"./run", ".json", "/", "state", ".json">> }

Fingerprints ==
    [device_name : {"Desktop Chrome", "Desktop Firefox"}, locale : {"zh-CN", "en-US"},
     timezone_id : {"Asia/Shanghai"}, color_scheme : {"light", "dark"},
     reduced_motion : {"no-preference"}, forced_colors : {"none"}]

OldFingerprint ==
    [device_name |-> "Desktop Safari", locale |-> "en-GB", timezone_id |-> "Europe/London",
     color_scheme |-> "light", reduced_motion |-> "reduce", forced_colors |-> "none"]

Domains == {NoStr, Str(""), Str("https://www.google.com"), Str("https://www.google.co.uk")}

SavedStates ==
    {SavedState(fp, dom) : fp \in {NoFingerprint} \cup {Fp(c) : c \in Fingerprints},
                           dom \in Domains}

\* what the two paths can hold before the call: nothing, a state file alone,
\* a state file with the sidecar of an earlier session, with a sidecar that
\* does not parse, with one whose fingerprint lacks a field, and the sidecar
\* of an earlier session whose state file was removed
DisksBefore(state_file) ==
    LET side == fingerprint_file_path(state_file)
        some == WriteFile(DiskIdle, state_file, StorageContent)
        old == fingerprint_data(SavedState(Fp(OldFingerprint), Str("https://www.google.ca")))
    IN { DiskIdle,
         some,
         WriteFile(DiskIdle, side, old),
         WriteFile(some, side, old),
         WriteFile(some, side, Garbage),
         WriteFile(some, side,
                   JObj({<<"fingerprint", JObj({<<"locale", JStr("en-GB")>>})>>,
                         <<"google_domain", JStr("https://www.google.ca")>>})) }

SidecarStart(state_file) ==
    [pc |-> "first_load", state_file |-> state_file, fingerprint_file |-> NoPath,
     storage_state |-> NoPath, before |-> EmptySavedState, mem |-> EmptySavedState,
     saved |-> "no", loaded |-> EmptySavedState]

InitSidecar ==
    /\ req \in [limit : {None}, timeout : {None}, headless : {"None"},
                no_save_state : BOOLEAN, provided : {FALSE}]
    /\ stack = << >>
    /\ browsers = << >>
    /\ drivers = << >>
    /\ files = << >>
    /\ outcome = NoResult
    /\ hist = HistInit
    /\ ExtractIdle
    /\ html = HtmlIdle
    /\ blk = BlkIdle
    /\ MoreIdle
    /\ \E state_file \in StatePaths :
          /\ sidecar = SidecarStart(state_file)
          /\ disk \in DisksBefore(state_file)

\* storage_state, saved_state, fingerprint_file = load_saved_state(state_file)
SLoadFirst ==
    /\ sidecar.pc = "first_load"
    /\ LET r == load_saved_state(disk, sidecar.state_file) IN
        sidecar' = [sidecar EXCEPT !.pc = "session", !.fingerprint_file = r.fingerprint_file,
                                   !.storage_state = r.storage_state,
                                   !.before = r.saved_state, !.mem = r.saved_state]
    /\ UNCHANGED <<orchVars, extractVars, html, disk, blk, moreVars>>

\* the session leaves some fingerprint and domain in saved_state
SSession ==
    /\ sidecar.pc = "session"
    /\ \E st \in SavedStates : sidecar' = [sidecar EXCEPT !.pc = "save", !.mem = st]
    /\ UNCHANGED <<orchVars, extractVars, html, disk, blk, moreVars>>

\* save_browser_state(context, state_file, fingerprint_file, saved_state,
\* no_save_state): suppressed; storage_state raises; the sidecar cannot be
\* opened; the dump raises after the file was truncated; both files written
SSave ==
    /\ sidecar.pc = "save"
    /\ IF req.no_save_state
       THEN /\ disk' = disk
            /\ sidecar' = [sidecar EXCEPT !.pc = "load", !.saved = "suppressed"]
       ELSE LET d1 == WriteFile(disk, sidecar.state_file, StorageContent) IN
            \/ /\ disk' = disk
               /\ sidecar' = [sidecar EXCEPT !.pc = "load", !.saved = "storage_failed"]
            \/ /\ disk' = d1
               /\ sidecar' = [sidecar EXCEPT !.pc = "load", !.saved = "sidecar_failed"]
            \/ /\ disk' = WriteFile(d1, sidecar.fingerprint_file, Garbage)
               /\ sidecar' = [sidecar EXCEPT !.pc = "load", !.saved = "sidecar_failed"]
            \/ /\ disk' = WriteFile(d1, sidecar.fingerprint_file,
                                    fingerprint_data(sidecar.mem))
               /\ sidecar' = [sidecar EXCEPT !.pc = "load", !.saved = "ok"]
    /\ UNCHANGED <<orchVars, extractVars, html, blk, moreVars>>

\* the next call's load_saved_state(state_file)
SLoadAgain ==
    /\ sidecar.pc = "load"
    /\ LET r == load_saved_state(disk, sidecar.state_file) IN
        sidecar' = [sidecar EXCEPT !.pc = "done", !.storage_state = r.storage_state,
                                   !.loaded = r.saved_state]
    /\ UNCHANGED <<orchVars, extractVars, html, disk, blk, moreVars>>

NextSidecar ==
    \/ SLoadFirst
    \/ SSession
    \/ SSave
    \/ SLoadAgain

SpecSidecar == InitSidecar /\ [][NextSidecar]_vars

\* ------------------------------------------------------------------------
\* is_blocked_page on every URL of up to MaxUrlLen tokens
\* ------------------------------------------------------------------------

\* the tokens the markers are made of, and one that belongs to no marker
UrlTokens == {"google", ".com/", "sorry", "/index", "re", "captcha", "unusual traffic", "q="}

RECURSIVE SeqsUpTo(_, _)
SeqsUpTo(S, n) ==
    IF n = 0 THEN {<< >>}
    ELSE LET shorter == SeqsUpTo(S, n - 1) IN
         shorter \cup {Append(q, x) : q \in shorter, x \in S}

\* response_url as the callers pass it: None, or the URL of a response
ResponseUrls == {NoUrl, EmptyStr, HomeUrl, ResultsUrl, SorryUrl, <<"q=", "re", "captcha">>}

InitBlocked ==
    /\ req = [limit |-> None, timeout |-> None, headless |-> "None",
              no_save_state |-> TRUE, provided |-> FALSE]
    /\ stack = << >>
    /\ browsers = << >>
    /\ drivers = << >>
    /\ files = << >>
    /\ outcome = NoResult
    /\ hist = HistInit
    /\ ExtractIdle
    /\ html = HtmlIdle
    /\ disk = DiskIdle
    /\ sidecar = SidecarIdle
    /\ MoreIdle
    /\ \E url \in SeqsUpTo(UrlTokens, MaxUrlLen), response_url \in ResponseUrls :
          blk = [pc |-> "call", url |-> url, response_url |-> response_url, out |-> FALSE]

\* the call is_blocked_page(url, response_url)
BCheck ==
    /\ blk.pc = "call"
    /\ blk' = [blk EXCEPT !.pc = "done", !.out = is_blocked_page(blk.url, blk.response_url)]
    /\ UNCHANGED <<orchVars, extractVars, html, disk, sidecar, moreVars>>

NextBlocked == BCheck

SpecBlocked == InitBlocked /\ [][NextBlocked]_vars

\* the orchestration variables of a specification that runs no search
OrchIdle ==
    /\ req = [limit |-> None, timeout |-> None, headless |-> "None",
              no_save_state |-> TRUE, provided |-> FALSE]
    /\ stack = << >>
    /\ browsers = << >>
    /\ drivers = << >>
    /\ files = << >>
    /\ outcome = NoResult
    /\ hist = HistInit

\* ------------------------------------------------------------------------
\* SearchExecutor.wait_for_search_results: selectors and rounds
\* ------------------------------------------------------------------------

search_result_selectors ==
    <<"#search", "#rso", ".g", "[data-sokoban-container]", "div[role='main']">>

InitialSelectorTimeout == 5000
SelectorTimeoutCap == 15000
max_attempts == 3

\* doubling without the cap
next_selector_timeout_uncapped(t) == t * 2

\* selector_timeout = min(selector_timeout * 2, 15000)
next_selector_timeout(t) == IF t * 2 < SelectorTimeoutCap THEN t * 2 ELSE SelectorTimeoutCap

\* the for loop moves on to the selector after sel, or ends without a result
NextSelector(w) ==
    IF w.sel < Len(search_result_selectors)
    THEN [w EXCEPT !.pc = "wait", !.sel = @ + 1, !.attempts = 0,
                   !.selector_timeout = InitialSelectorTimeout]
    ELSE [w EXCEPT !.pc = "diagnose"]

InitWait ==
    /\ OrchIdle
    /\ ExtractIdle
    /\ html = HtmlIdle
    /\ disk = DiskIdle
    /\ sidecar = SidecarIdle
    /\ blk = BlkIdle
    /\ fpc = Idle
    /\ conc = Idle
    /\ exec = Idle
    /\ srv = Idle
    /\ waitrun = [pc |-> "wait", sel |-> 1, attempts |-> 0,
                  selector_timeout |-> InitialSelectorTimeout, log |-> << >>,
                  results_found |-> FALSE, err |-> ""]

\* page.wait_for_selector(selector, timeout=selector_timeout, state="visible"):
\* the element is visible, or the wait raises and the round is counted
WTry ==
    /\ waitrun.pc = "wait"
    /\ LET entry(v) == [sel |-> waitrun.sel, timeout |-> waitrun.selector_timeout,
                        visible |-> v] IN
       \/ waitrun' = [waitrun EXCEPT !.pc = "found", !.results_found = TRUE,
                                     !.log = Append(@, entry(TRUE))]
       \/ LET w == [waitrun EXCEPT !.attempts = @ + 1, !.log = Append(@, entry(FALSE))] IN
          waitrun' = IF w.attempts >= max_attempts THEN NextSelector(w)
                     ELSE [w EXCEPT !.pc = "pause",
                                    !.selector_timeout = next_selector_timeout(@)]
    /\ UNCHANGED <<orchVars, extractVars, html, disk, sidecar, blk, fpc, conc, exec, srv>>

\* page.wait_for_timeout(1000) between rounds; when it raises the outer
\* except moves on to the next selector
WPause ==
    /\ waitrun.pc = "pause"
    /\ \/ waitrun' = [waitrun EXCEPT !.pc = "wait"]
       \/ waitrun' = NextSelector(waitrun)
    /\ UNCHANGED <<orchVars, extractVars, html, disk, sidecar, blk, fpc, conc, exec, srv>>

\* if not results_found: the diagnosis on page.url
WDiagnose ==
    /\ waitrun.pc = "diagnose"
    /\ \E u \in {HomeUrl, ResultsUrl, SorryUrl} :
          waitrun' = [waitrun EXCEPT !.pc = "raised", !.err = wait_failure_kind(u)]
    /\ UNCHANGED <<orchVars, extractVars, html, disk, sidecar, blk, fpc, conc, exec, srv>>

\* the short pause after a result was found, then return True
WReturn ==
    /\ waitrun.pc = "found"
    /\ waitrun' = [waitrun EXCEPT !.pc = "returned"]
    /\ UNCHANGED <<orchVars, extractVars, html, disk, sidecar, blk, fpc, conc, exec, srv>>

NextWait ==
    \/ WTry
    \/ WPause
    \/ WDiagnose
    \/ WReturn

SpecWait == InitWait /\ [][NextWait]_vars

\* ------------------------------------------------------------------------
\* fingerprint.py and the fingerprint part of BrowserManager.create_context
\* ------------------------------------------------------------------------

\* device_list of get_device_config
device_list == <<"Desktop Chrome", "Desktop Edge", "Desktop Firefox", "Desktop Safari">>

\* names playwright_devices has an entry for: the desktop profiles and, with
\* the registry of Playwright, others such as a phone
playwright_devices == {device_list[i] : i \in DOMAIN device_list} \cup {"iPhone 13"}

\* (name, config) of get_device_config; pick is what random.choice returns
get_device_config(saved_state_fingerprint, pick) ==
    IF /\ saved_state_fingerprint.some
       /\ saved_state_fingerprint.v.device_name # ""
       /\ saved_state_fingerprint.v.device_name \in playwright_devices
    THEN saved_state_fingerprint.v.device_name
    ELSE pick

\* timezone_id of get_host_machine_config; time_timezone is time.timezone,
\* the seconds the host is west of UTC
host_timezone_id(time_timezone) ==
    LET timezone_offset == (0 - time_timezone) \div 60 IN
    IF -600 < timezone_offset /\ timezone_offset <= -480 THEN "Asia/Shanghai"
    ELSE IF timezone_offset <= -540 THEN "Asia/Tokyo"
    ELSE IF -480 < timezone_offset /\ timezone_offset <= -420 THEN "Asia/Bangkok"
    ELSE IF -60 < timezone_offset /\ timezone_offset <= 0 THEN "Europe/London"
    ELSE IF 0 < timezone_offset /\ timezone_offset <= 60 THEN "Europe/Berlin"
    ELSE IF 240 < timezone_offset /\ timezone_offset <= 300 THEN "America/New_York"
    ELSE "Asia/Shanghai"

\* the FingerprintConfig get_host_machine_config returns: the device name
\* ends up "Desktop Chrome" on every platform (line 119)
get_host_machine_config(user_locale, time_timezone, hour) ==
    [device_name |-> "Desktop Chrome",
     locale |-> user_locale,
     timezone_id |-> host_timezone_id(time_timezone),
     color_scheme |-> IF hour >= 19 \/ hour < 7 THEN "dark" ELSE "light",
     reduced_motion |-> "no-preference",
     forced_colors |-> "none"]

\* a saved fingerprint with the given device name
SavedWithDevice(name) == Fp([OldFingerprint EXCEPT !.device_name = name])

\* what load_saved_state can hand to create_context: no fingerprint, one
\* with a desktop profile, with another known profile, with a name that
\* playwright_devices does not have, with an empty name
SavedFingerprints ==
    {NoFingerprint} \cup
    {SavedWithDevice(n) : n \in {"Desktop Firefox", "iPhone 13", "Galaxy Fold", ""}}

InitFingerprint ==
    /\ OrchIdle
    /\ ExtractIdle
    /\ html = HtmlIdle
    /\ disk = DiskIdle
    /\ sidecar = SidecarIdle
    /\ blk = BlkIdle
    /\ waitrun = Idle
    /\ conc = Idle
    /\ exec = Idle
    /\ srv = Idle
    /\ \E fp \in SavedFingerprints, q \in (0 - MaxOffsetQuarters)..MaxOffsetQuarters,
          hour \in {3, 12, 20}, locale \in {"zh-CN", "en-US"} :
          fpc = [pc |-> "device", before |-> fp, fingerprint |-> fp,
                 utc_offset_quarters |-> q, time_timezone |-> (0 - q) * 900,
                 hour |-> hour, locale |-> locale, pick |-> "", device_name |-> "",
                 host_config |-> OldFingerprint, context_device |-> "",
                 context_timezone_id |-> ""]

\* device_name, device_config = get_device_config(saved_state.fingerprint)
FDevice ==
    /\ fpc.pc = "device"
    /\ \E i \in DOMAIN device_list :
          fpc' = [fpc EXCEPT !.pc = IF fpc.fingerprint.some THEN "saved" ELSE "host",
                             !.pick = device_list[i],
                             !.device_name = get_device_config(fpc.fingerprint, device_list[i])]
    /\ UNCHANGED <<orchVars, extractVars, html, disk, sidecar, blk, waitrun, conc, exec, srv>>

\* if saved_state.fingerprint: the device of get_device_config with the
\* saved locale, timezone and colour settings
FSaved ==
    /\ fpc.pc = "saved"
    /\ fpc' = [fpc EXCEPT !.pc = "done", !.context_device = fpc.device_name,
                          !.context_timezone_id = fpc.fingerprint.v.timezone_id]
    /\ UNCHANGED <<orchVars, extractVars, html, disk, sidecar, blk, waitrun, conc, exec, srv>>

\* else: host_config = get_host_machine_config(locale)
FHost ==
    /\ fpc.pc = "host"
    /\ fpc' = [fpc EXCEPT !.pc = "fresh",
                          !.host_config = get_host_machine_config(fpc.locale,
                                              fpc.time_timezone, fpc.hour)]
    /\ UNCHANGED <<orchVars, extractVars, html, disk, sidecar, blk, waitrun, conc, exec, srv>>

\* the device of host_config replaces the one of get_device_config when the
\* two differ, and host_config becomes saved_state.fingerprint
FFresh ==
    /\ fpc.pc = "fresh"
    /\ fpc' = [fpc EXCEPT !.pc = "done",
                          !.context_device =
                              IF /\ fpc.host_config.device_name # fpc.device_name
                                 /\ fpc.host_config.device_name \in playwright_devices
                              THEN fpc.host_config.device_name ELSE fpc.device_name,
                          !.context_timezone_id = fpc.host_config.timezone_id,
                          !.fingerprint = Fp(fpc.host_config)]
    /\ UNCHANGED <<orchVars, extractVars, html, disk, sidecar, blk, waitrun, conc, exec, srv>>

NextFingerprint ==
    \/ FDevice
    \/ FSaved
    \/ FHost
    \/ FFresh

SpecFingerprint == InitFingerprint /\ [][NextFingerprint]_vars

\* ------------------------------------------------------------------------
\* SearchExecutor.execute_search, one strategy at a time
\* ------------------------------------------------------------------------

\* the query as it appears in a URL: a space is sent as "+"
QueryInUrl(query) == IF query = "unusual traffic" THEN "unusual+traffic" ELSE query

\* the results page of the search engine for the query
ResultsUrlFor(query) ==
    <<"http", "s", "://", "www.", "google", ".com/", "search?", "q=", QueryInUrl(query)>>

\* the queries execute_search is given
Queries == {"rust", "captcha", "unusual traffic"}

\* StrategyOutcomes with the results page of the query typed
StrategyOutcomesFor(query, canMiss) ==
    [kind : {"throw", "nav"}, url : {HomeUrl, ResultsUrlFor(query), SorryUrl}]
        \cup (IF canMiss THEN {[kind |-> "missing", url |-> EmptyStr]} ELSE {})

\* every strategy is run, whatever the earlier ones did
StrategyRuns_Always(st) == TRUE

\* "if not search_executed:" in front of strategies 2 and 3; strategy 1
\* starts with search_executed = False
StrategyRuns(st) == ~st.executed

InitExecute ==
    /\ OrchIdle
    /\ ExtractIdle
    /\ html = HtmlIdle
    /\ disk = DiskIdle
    /\ sidecar = SidecarIdle
    /\ blk = BlkIdle
    /\ waitrun = Idle
    /\ fpc = Idle
    /\ conc = Idle
    /\ srv = Idle
    /\ \E url0 \in {HomeUrl, ResultsUrl}, query \in Queries :
          exec = [pc |-> "input", url0 |-> url0, query |-> query, input |-> "",
                  typed |-> FALSE,
                  st |-> [executed |-> FALSE, url |-> url0], n |-> 1, ran |-> << >>,
                  res |-> [ok |-> FALSE, err |-> "", url |-> url0]]

\* the loop over search_input_selectors, then click, fill and type
EInput ==
    /\ exec.pc = "input"
    /\ \/ exec' = [exec EXCEPT !.pc = "done", !.input = "nobox",
                                !.res = [ok |-> FALSE, err |-> "SearchBoxNotFound",
                                         url |-> exec.url0]]
       \/ \E typed \in BOOLEAN :
             exec' = [exec EXCEPT !.pc = "done", !.input = "throws", !.typed = typed,
                                  !.res = [ok |-> FALSE, err |-> "InputFailed", url |-> exec.url0]]
       \/ exec' = [exec EXCEPT !.pc = "strategy", !.input = "ok", !.typed = TRUE]
    /\ UNCHANGED <<orchVars, extractVars, html, disk, sidecar, blk, waitrun, fpc, conc, srv>>

\* strategy n = 1 (Enter), 2 (submit control), 3 (form.submit())
EStrategy ==
    /\ exec.pc = "strategy"
    /\ LET n == exec.n
           after == [exec EXCEPT !.n = n + 1, !.pc = IF n = 3 THEN "finish" ELSE "strategy"]
       IN IF StrategyRuns(exec.st)
          THEN \E o \in StrategyOutcomesFor(exec.query, n > 1) :
                  exec' = [after EXCEPT !.st = SubmitStep(exec.st, o),
                                        !.ran = Append(@, [n |-> n, o |-> o])]
          ELSE exec' = after
    /\ UNCHANGED <<orchVars, extractVars, html, disk, sidecar, blk, waitrun, fpc, conc, srv>>

\* "if not search_executed:" after the strategies: the two exceptions, or
\* return True
EFinish ==
    /\ exec.pc = "finish"
    /\ exec' = [exec EXCEPT !.pc = "done",
                            !.res = IF exec.st.executed
                                    THEN [ok |-> TRUE, err |-> "", url |-> exec.st.url]
                                    ELSE IF is_blocked_page(exec.st.url, NoUrl)
                                    THEN [ok |-> FALSE, err |-> "AllStrategiesBlocked",
                                          url |-> exec.st.url]
                                    ELSE [ok |-> FALSE, err |-> "AllStrategiesFailed",
                                          url |-> exec.st.url]]
    /\ UNCHANGED <<orchVars, extractVars, html, disk, sidecar, blk, waitrun, fpc, conc, srv>>

NextExecute ==
    \/ EInput
    \/ EStrategy
    \/ EFinish

SpecExecute == InitExecute /\ [][NextExecute]_vars

\* ------------------------------------------------------------------------
\* Calls of google_search that share the default state-file path
\* ------------------------------------------------------------------------

\* BrowserManager.google_domains
google_domains ==
    <<"https://www.google.com", "https://www.google.co.uk", "https://www.google.ca",
      "https://www.google.com.au">>

\* state_file = options.state_file or "./browser-state.json"
DefaultStateFile == <<"./browser-state", ".json">>

\* truthiness of an Optional[str]
StrTruthy(o) == o.some /\ o.v # ""

\* the fingerprint create_context leaves in saved_state
FingerprintAfterContext(saved_state) ==
    IF saved_state.fingerprint.some THEN saved_state.fingerprint
    ELSE Fp(get_host_machine_config("zh-CN", -28800, 12))

\* the domain a readable sidecar at the path of state_file holds
PersistedDomain(d, state_file) == load_saved_state(d, state_file).saved_state.google_domain

\* what context.storage_state leaves in the state file for call i
StorageOf(i) == JObj({<<"cookies", JStr(IF i = 1 THEN "call 1" ELSE "call 2")>>})

\* get_google_domain with the saved domain always ignored
get_google_domain_always_picks(saved_state, pick) == google_domains[pick]

\* get_google_domain: the saved domain if truthy, else random.choice
get_google_domain(saved_state, pick) ==
    IF StrTruthy(saved_state.google_domain) THEN saved_state.google_domain.v
    ELSE google_domains[pick]

\* the first domain a readable sidecar held, once there is one
FirstPersisted(before, d) ==
    IF StrTruthy(before) THEN before ELSE PersistedDomain(d, DefaultStateFile)

\* a call in progress
Active(c) == c.pc \notin {"idle", "done"}

\* a call that starts only when no other call is in progress
MayProceed_Exclusive(i) == \A j \in DOMAIN conc.calls : j # i => ~Active(conc.calls[j])

\* google_search takes no lock on the files: a call never waits for another
MayProceed(i) == TRUE

CallStart ==
    [pc |-> "idle", saved_state |-> EmptySavedState, loaded |-> EmptySavedState,
     seen |-> NoStr, selected_domain |-> NoStr]

InitCalls ==
    /\ OrchIdle
    /\ ExtractIdle
    /\ html = HtmlIdle
    /\ sidecar = SidecarIdle
    /\ blk = BlkIdle
    /\ waitrun = Idle
    /\ fpc = Idle
    /\ exec = Idle
    /\ srv = Idle
    /\ disk \in DisksBefore(DefaultStateFile)
    /\ conc = [pc |-> "run", calls |-> <<CallStart, CallStart>>, overlap |-> FALSE,
               wrote |-> [state |-> 0, side |-> 0],
               persisted |-> FirstPersisted(NoStr, disk)]

SetCall(i, c) == [conc EXCEPT !.calls[i] = c]

\* storage_state, saved_state, fingerprint_file = load_saved_state(state_file)
CLoad(i) ==
    /\ conc.calls[i].pc = "idle"
    /\ MayProceed(i)
    /\ LET r == load_saved_state(disk, DefaultStateFile) IN
        conc' = [SetCall(i, [conc.calls[i] EXCEPT !.pc = "loaded",
                                                  !.saved_state = r.saved_state,
                                                  !.loaded = r.saved_state,
                                                  !.seen = conc.persisted])
                    EXCEPT !.overlap = @ \/ \E j \in DOMAIN conc.calls : Active(conc.calls[j])]
    /\ UNCHANGED <<orchVars, extractVars, html, disk, sidecar, blk, waitrun, fpc, exec, srv>>

\* create_context, then get_google_domain and page.goto(selected_domain);
\* a context that cannot be created ends the call with nothing written
CNavigate(i) ==
    /\ conc.calls[i].pc = "loaded"
    /\ LET c == conc.calls[i]
           fp == FingerprintAfterContext(c.saved_state) IN
       \/ conc' = SetCall(i, [c EXCEPT !.pc = "done"])
       \/ \E pick \in DOMAIN google_domains :
             LET selected_domain == Str(get_google_domain(c.saved_state, pick)) IN
             conc' = SetCall(i, [c EXCEPT !.pc = "navigated",
                                         !.saved_state.fingerprint = fp,
                                         !.saved_state.google_domain = selected_domain,
                                         !.selected_domain = selected_domain])
    /\ UNCHANGED <<orchVars, extractVars, html, disk, sidecar, blk, waitrun, fpc, exec, srv>>

\* await context.storage_state(path=state_file): written, or it raises and
\* the sidecar is not attempted
CSaveStorage(i) ==
    /\ conc.calls[i].pc = "navigated"
    /\ \/ /\ disk' = WriteFile(disk, DefaultStateFile, StorageOf(i))
          /\ conc' = [SetCall(i, [conc.calls[i] EXCEPT !.pc = "stored"])
                          EXCEPT !.wrote.state = i]
       \/ /\ disk' = disk
          /\ conc' = SetCall(i, [conc.calls[i] EXCEPT !.pc = "done"])
    /\ UNCHANGED <<orchVars, extractVars, html, sidecar, blk, waitrun, fpc, exec, srv>>

\* the sidecar dump: written; open raises; the dump raises after the file
\* was truncated
CSaveSidecar(i) ==
    /\ conc.calls[i].pc = "stored"
    /\ LET side == fingerprint_file_path(DefaultStateFile)
           c == [conc.calls[i] EXCEPT !.pc = "done"] IN
       \/ /\ disk' = WriteFile(disk, side, fingerprint_data(c.saved_state))
          /\ conc' = [SetCall(i, c) EXCEPT !.wrote.side = i,
                                           !.persisted = FirstPersisted(@, disk')]
       \/ /\ disk' = disk
          /\ conc' = SetCall(i, c)
       \/ /\ disk' = WriteFile(disk, side, Garbage)
          /\ conc' = [SetCall(i, c) EXCEPT !.wrote.side = i]
    /\ UNCHANGED <<orchVars, extractVars, html, sidecar, blk, waitrun, fpc, exec, srv>>

CallStep(i) == CLoad(i) \/ CNavigate(i) \/ CSaveStorage(i) \/ CSaveSidecar(i)

NextCalls ==
    \/ \E i \in 1..2 : CLoad(i)
    \/ \E i \in 1..2 : CNavigate(i)
    \/ \E i \in 1..2 : CSaveStorage(i)
    \/ \E i \in 1..2 : CSaveSidecar(i)

SpecCalls == InitCalls /\ [][NextCalls]_vars

\* ------------------------------------------------------------------------
\* The session state across the headless attempt and the headful re-run
\* ------------------------------------------------------------------------

\* a restart that begins with an empty session state
restart_saved_state_fresh(saved_state) == EmptySavedState

\* the saved_state the lambda of restart_callback hands to
\* _perform_search_internal: the object of the waiting activation
restart_saved_state(saved_state) == saved_state

\* the settings create_context gives the new context: the device profile and
\* the five settings, from the saved fingerprint or from the host
context_options(fingerprint, pick, host_config) ==
    LET device_name == get_device_config(fingerprint, pick)
        from == IF fingerprint.some THEN fingerprint.v ELSE host_config IN
    [device |-> IF fingerprint.some THEN device_name
                ELSE IF /\ host_config.device_name # device_name
                        /\ host_config.device_name \in playwright_devices
                     THEN host_config.device_name ELSE device_name,
     locale |-> from.locale,
     timezone_id |-> from.timezone_id,
     color_scheme |-> from.color_scheme,
     reduced_motion |-> from.reduced_motion,
     forced_colors |-> from.forced_colors]

NoOptions == [device |-> ""]

RerunSavedStates ==
    {EmptySavedState,
     SavedState(Fp(OldFingerprint), Str("https://www.google.ca")),
     SavedState(SavedWithDevice("Galaxy Fold"), NoStr),
     SavedState(NoFingerprint, Str("https://www.google.co.uk"))}

InitRerun ==
    /\ OrchIdle
    /\ ExtractIdle
    /\ html = HtmlIdle
    /\ disk = DiskIdle
    /\ sidecar = SidecarIdle
    /\ blk = BlkIdle
    /\ waitrun = Idle
    /\ conc = Idle
    /\ exec = Idle
    /\ srv = Idle
    /\ \E st \in RerunSavedStates :
          fpc = [pc |-> "r_context", run |-> 1, loaded |-> st, saved_state |-> st,
                 options |-> <<NoOptions, NoOptions>>,
                 selected_domain |-> <<NoStr, NoStr>>,
                 after_first |-> EmptySavedState, persisted |-> JNull]

\* context = await browser_manager.create_context(browser, saved_state, ...):
\* the host settings are read at the time of the run
RContext ==
    /\ fpc.pc = "r_context"
    /\ \E i \in DOMAIN device_list, hour \in {12, 20}, tz \in {-28800, 0} :
          LET host_config == get_host_machine_config("zh-CN", tz, hour)
              fp == fpc.saved_state.fingerprint IN
          fpc' = [fpc EXCEPT !.pc = "r_domain",
                             !.options[fpc.run] = context_options(fp, device_list[i], host_config),
                             !.saved_state.fingerprint =
                                 IF fp.some THEN fp ELSE Fp(host_config)]
    /\ UNCHANGED <<orchVars, extractVars, html, disk, sidecar, blk, waitrun, conc, exec, srv>>

\* selected_domain = browser_manager.get_google_domain(saved_state), page.goto
RDomain ==
    /\ fpc.pc = "r_domain"
    /\ \E pick \in DOMAIN google_domains :
          LET selected_domain == Str(get_google_domain(fpc.saved_state, pick)) IN
          fpc' = [fpc EXCEPT !.pc = "r_check",
                             !.selected_domain[fpc.run] = selected_domain,
                             !.saved_state.google_domain = selected_domain]
    /\ UNCHANGED <<orchVars, extractVars, html, disk, sidecar, blk, waitrun, conc, exec, srv>>

\* a block is detected in the headless run: return await restart_callback()
REscalate ==
    /\ fpc.pc = "r_check"
    /\ fpc.run = 1
    /\ fpc' = [fpc EXCEPT !.pc = "r_context", !.run = 2,
                          !.after_first = fpc.saved_state,
                          !.saved_state = restart_saved_state(fpc.saved_state)]
    /\ UNCHANGED <<orchVars, extractVars, html, disk, sidecar, blk, waitrun, conc, exec, srv>>

\* the run ends and save_browser_state writes the sidecar
RSave ==
    /\ fpc.pc = "r_check"
    /\ fpc' = [fpc EXCEPT !.pc = "r_done", !.persisted = fingerprint_data(fpc.saved_state)]
    /\ UNCHANGED <<orchVars, extractVars, html, disk, sidecar, blk, waitrun, conc, exec, srv>>

NextRerun ==
    \/ RContext
    \/ RDomain
    \/ REscalate
    \/ RSave

SpecRerun == InitRerun /\ [][NextRerun]_vars

\* ------------------------------------------------------------------------
\* google_search and get_google_search_page_html side by side
\* ------------------------------------------------------------------------

\* ------------------------------------------------------------------------
\* call_tool of the protocol server: google_search under asyncio.wait_for
\* ------------------------------------------------------------------------

\* the seconds asyncio.wait_for allows: timeout / 1000 + 60
outer_timeout(t) == t \div 1000 + 60

\* timeout = arguments.get("timeout", 30000)
ServerDefaultTimeout == 30000

\* awaits of _perform_search_with_browser, in its try block and in its
\* except block
BrowserAwaits ==
    {"create_context", "create_page", "goto", "check_nav", "wait_url_nav",
     "execute_search", "stabilise", "check_query", "wait_url_query", "wait_results",
     "extract", "save", "close", "except", "except_close"}

\* google_search(query, CommandOptions(limit=limit, timeout=timeout)): no
\* browser is supplied, the other options have their defaults
InitCancel ==
    /\ req \in [limit : LimitOptions \ {None}, timeout : {Some(ServerDefaultTimeout)},
                headless : {"None"}, no_save_state : {FALSE}, provided : {FALSE}]
    /\ stack = <<Frame(use_headless(req.headless), FALSE, 0)>>
    /\ browsers = << >>
    /\ drivers = << >>
    /\ files = << >>
    /\ outcome = NoResult
    /\ hist = HistInit
    /\ ExtractIdle
    /\ html = HtmlIdle /\ disk = DiskIdle /\ sidecar = SidecarIdle /\ blk = BlkIdle
    /\ waitrun = Idle /\ fpc = Idle /\ conc = Idle /\ exec = Idle
    /\ srv = [pc |-> "waiting", timer |-> "armed", at |-> "", launched |-> FALSE,
              deadline |-> outer_timeout(timeout), payload |-> "none"]

\* a CancelledError raised at the await the activation is suspended in; it
\* is no Exception, so no except block of the engine handles it
Cancelled(f, pc) == [f EXCEPT !.pc = pc, !.res = Raised("CancelledError")]

\* the timer of asyncio.wait_for fires and the task is cancelled once, at
\* the await it is suspended in
Cancel ==
    /\ srv.pc = "waiting"
    /\ srv.timer = "armed"
    /\ Running
    /\ LET mark(t) == [srv EXCEPT !.timer = t, !.at = Top.pc,
                                  !.launched = \E i \in DOMAIN browsers : browsers[i].own] IN
       \/ \* an await of _perform_search_with_browser: the finally clauses of
          \* _perform_search_internal are next
          /\ Top.pc \in BrowserAwaits
          /\ stack' = SetTop(Cancelled(Top, "finally"))
          /\ srv' = mark("cancelled")
          /\ drivers' = drivers
       \/ \* page.wait_for_selector of the search box, inside `except: continue`
          /\ Top.pc = "execute_search"
          /\ stack' = stack
          /\ srv' = mark("swallowed")
          /\ drivers' = drivers
       \/ \* async_playwright().start(), in front of the try
          /\ Top.pc = "pw_start"
          /\ stack' = SetTop(Cancelled(Top, "ret"))
          /\ srv' = mark("cancelled")
          /\ drivers' = drivers
       \/ \* launch_browser: its own driver may have started; p is stopped
          /\ Top.pc = "launch"
          /\ stack' = SetTop(Cancelled(Top, "ret"))
          /\ srv' = mark("cancelled")
          /\ \E started \in BOOLEAN :
                drivers' = [(IF started THEN Append(drivers, "running") ELSE drivers)
                               EXCEPT ![Top.p] = "stopped"]
       \/ \* browser.close() or playwright.stop() of the finally clauses
          /\ Top.pc = "finally"
          /\ stack' = SetTop(Cancelled(Top, "ret"))
          /\ srv' = mark("cancelled")
          /\ \/ drivers' = drivers
             \/ drivers' = [drivers EXCEPT ![Top.p] = "stopped"]
    /\ UNCHANGED <<req, browsers, files, outcome, hist, extractVars, html, disk, sidecar,
                   blk, waitrun, fpc, conc, exec>>

\* asyncio.wait_for is over: the formatted results, the text of
\* `except asyncio.TimeoutError` when the task ended cancelled, or the text
\* of `except Exception`
ToolReturn ==
    /\ srv.pc = "waiting"
    /\ Done
    /\ srv' = [srv EXCEPT !.pc = "returned",
                          !.payload = IF outcome.kind = "response" THEN "results"
                                      ELSE IF outcome.err = "CancelledError" THEN "timeout"
                                      ELSE "failure"]
    /\ UNCHANGED <<orchVars, extractVars, html, disk, sidecar, blk, waitrun, fpc, conc, exec>>

NextCancel ==
    \/ Next
    \/ Cancel
    \/ ToolReturn

SpecCancel == InitCancel /\ [][NextCancel]_vars

InitAll == Init \/ InitHtml

NextAll == Next \/ NextHtml

SpecAll == InitAll /\ [][NextAll]_vars

\* ------------------------------------------------------------------------
\* Properties
\* ------------------------------------------------------------------------

OwnOpenBrowsers == {i \in 1..Len(browsers) : browsers[i].own /\ browsers[i].open}
HeadfulLaunches == {i \in 1..Len(hist.launches) : hist.launches[i] = "headful"}

\* C1: within one google_search call restart_callback is invoked at most
\* once: the re-run is headful, at most two activations exist, and a block
\* met in the headful re-run starts no further launch sequence.
C1_EscalationAtMostOnce ==
    /\ hist.restarts <= 1
    /\ Cardinality(HeadfulLaunches) <= 1
    /\ Len(stack) <= 2
    /\ (Len(stack) = 2 => ~Top.headless /\ Top.pc # "await_restart")

C1_Witness ==
    /\ Done
    /\ hist.restarts = 1
    /\ hist.blockHeadful

\* the step taken from the block check of a headless run that owns its
\* browser: page, context and browser closed, one headful activation started
EscalatedOwn(at) ==
    (At(at) /\ Top.headless /\ ~Top.provided
        /\ is_blocked_page(Top.url, IF at = "check_nav" THEN Top.respUrl ELSE NoUrl))
    => /\ Len(stack') = Len(stack) + 1
       /\ stack'[Len(stack)].page = "closed"
       /\ stack'[Len(stack)].ctx = "closed"
       /\ ~browsers'[Top.browser].open
       /\ OwnOpenBrowsers' = {}
       /\ stack'[Len(stack')] = Frame(FALSE, FALSE, 0)
       /\ hist'.restarts = 1

\* C2: without a supplied browser, a block after the initial navigation of
\* the headless run closes page, context and headless browser and then
\* starts exactly one headful launch sequence; the call never has two
\* browsers of its own open.
C2_NavBlockRelaunch ==
    /\ [][EscalatedOwn("check_nav")]_vars
    /\ [](Cardinality(OwnOpenBrowsers) <= 1)
    /\ []((Done /\ hist.navBlock /\ ~req.provided) =>
              hist.launches = <<"headless", "headful">>)

C2_Witness ==
    /\ Done
    /\ hist.navBlock
    /\ ~req.provided
    /\ Len(browsers) = 2
    /\ outcome.kind = "response"

\* C3: google_search never raises: it ends with a SearchResponse, and
\* after a failure that response is the single synthetic result carrying
\* the reason.
C3_NeverRaises ==
    Done =>
        /\ outcome.kind = "response"
        /\ (hist.failed =>
              /\ Len(outcome.results) = 1
              /\ outcome.results[1].title = FailureTitle
              /\ outcome.results[1].snippet = outcome.err)

\* the limit of the request: 10 when none is given
RequestedLimit == IF req.limit.some THEN req.limit.v ELSE DefaultLimit

\* C4: the response holds at most as many results as the request's limit.
C4_AtMostLimit ==
    (Done /\ outcome.kind = "response") => Len(outcome.results) <= RequestedLimit

\* C5: every result of every response has a non-empty link beginning with
\* a web scheme.
C5_LinksAreWeb ==
    (Done /\ outcome.kind = "response") =>
        \A i \in 1..Len(outcome.results) :
            /\ outcome.results[i].link # EmptyStr
            /\ StartsWithHttp(outcome.results[i].link)

\* C6: extract_search_results returns no two results with the same link,
\* across the selector sets and the anchor scan.
C6_NoDuplicateLinks ==
    Extracted =>
        \A i, j \in 1..Len(xResults) : i # j => xResults[i].link # xResults[j].link

\* a page that offers the same link through a container and through an
\* anchor, extracted into at least two results
C6_Witness ==
    /\ Extracted
    /\ Len(xResults) >= 2
    /\ \E k \in 1..NumSelectorSets : \E i \in 1..Len(xDom.sets[k]) :
         \E n \in 1..Len(xDom.anchors) :
            /\ xDom.anchors[n].text # ""
            /\ xDom.anchors[n].href = ContainerLink(xDom.sets[k][i])
            /\ \E r \in 1..Len(xResults) : xResults[r].link = xDom.anchors[n].href

\* C7 as stated: the first launch of every call is headless, and a headful
\* launch follows a block detected in the headless attempt.
C7_FirstLaunchHeadless ==
    /\ (hist.launches # << >> => hist.launches[1] = "headless")
    /\ (HeadfulLaunches # {} => hist.blockHeadless)

\* C7 amended: the first launch is headless in every call made without a
\* supplied browser, whatever the headless option; in every call a headful
\* launch follows a block detected in the headless attempt.
C7_FirstOwnLaunchHeadless ==
    /\ ((~req.provided /\ hist.launches # << >>) => hist.launches[1] = "headless")
    /\ (HeadfulLaunches # {} => hist.blockHeadless)

C7_Witness ==
    /\ ~req.provided
    /\ req.headless = "False"
    /\ hist.launches = <<"headless", "headful">>
    /\ Len(browsers) = 2

\* the step taken from the block check after query execution of a headless
\* run: page and context closed, the browser too unless it was supplied,
\* one headful activation started
EscalatedAfterQuery ==
    (At("check_query") /\ Top.headless /\ is_blocked_page(Top.url, NoUrl))
    => /\ Len(stack') = Len(stack) + 1
       /\ stack'[Len(stack)].page = "closed"
       /\ stack'[Len(stack)].ctx = "closed"
       /\ (~Top.provided => ~browsers'[Top.browser].open)
       /\ (Top.provided => browsers'[Top.browser].open)
       /\ stack'[Len(stack')] = Frame(FALSE, FALSE, 0)
       /\ hist'.restarts = 1

\* C8: a block found after the query was submitted and the page stabilised,
\* while headless, closes page and context (and the browser the call owns)
\* and re-runs the sequence once, headful.
C8_QueryBlockRelaunch ==
    /\ [][EscalatedAfterQuery]_vars
    /\ []((Done /\ hist.queryBlock) => (hist.restarts = 1 /\ Cardinality(HeadfulLaunches) = 1))

C8_Witness ==
    /\ Done
    /\ hist.queryBlock
    /\ Len(hist.launches) = 2
    /\ ~hist.failed

\* C9: a block found by wait_for_search_results while headless escalates
\* to a headful re-run, as a block after the initial navigation does for a
\* call that launched its own browser.
C9_WaitBlockEscalates ==
    (Done /\ hist.waitBlock /\ ~req.provided) =>
        (hist.restarts = 1 /\ HeadfulLaunches # {})

\* a step from a headful wait_for_url: on to the next step with an unblocked
\* URL, or into the except block with the timeout
WaitStep(at, next) ==
    At(at) =>
        /\ Len(stack') = Len(stack)
        /\ \/ Top'.pc = next /\ ~is_blocked_page(Top'.url, NoUrl)
           \/ Top'.pc = "except" /\ Top'.err = "WaitUrlTimeout"

\* a block found by either check of a headful run leads to the wait
WaitsWhenHeadful(at, wait) ==
    (At(at) /\ ~Top.headless
        /\ is_blocked_page(Top.url, IF at = "check_nav" THEN Top.respUrl ELSE NoUrl))
    => (Len(stack') = Len(stack) /\ Top'.pc = wait)

\* C10: a block in a headful run is waited out with a budget of twice the
\* timeout; when it clears the run goes on with the next step, when it does
\* not the call ends with the failure response of that timeout and launches
\* nothing more.
C10_HeadfulWait ==
    /\ [][WaitsWhenHeadful("check_nav", "wait_url_nav")]_vars
    /\ [][WaitsWhenHeadful("check_query", "wait_url_query")]_vars
    /\ []((At("wait_url_nav") \/ At("wait_url_query")) =>
              (~Top.headless /\ Top.budget = 2 * timeout))
    /\ [][WaitStep("wait_url_nav", "execute_search")]_vars
    /\ [][WaitStep("wait_url_query", "wait_results")]_vars
    /\ [][hist.waitTimedOut =>
             (hist'.launches = hist.launches /\ Len(browsers') = Len(browsers))]_vars
    /\ []((Done /\ hist.waitTimedOut) => outcome = FailureResponse("WaitUrlTimeout"))

C10_Witness ==
    /\ Done
    /\ hist.waitCleared
    /\ hist.waitTimedOut

\* ------------------------------------------------------------------------
\* Persistence and the ownership of handles
\* ------------------------------------------------------------------------

\* the browser the running activation works on is open
TopBrowserOpen == browsers[Top.browser].open

\* the save step of the success path works on an open browser and context,
\* logs its attempt, closes nothing and is followed by the close step
PersistsBeforeClose ==
    (At("save") /\ ~req.no_save_state) =>
        /\ TopBrowserOpen
        /\ Top.ctx = "open"
        /\ Len(files') > Len(files)
        /\ browsers' = browsers
        /\ Len(stack') = Len(stack)
        /\ Top'.pc = "close"

\* C11: on a successful search with persistence not suppressed the storage
\* state and the sidecar are persisted while the browser is still open, the
\* close comes after that attempt, and a browser launched by the call is
\* closed by the time google_search returns.
C11_PersistThenClose ==
    /\ [][PersistsBeforeClose]_vars
    /\ []((At("close") /\ ~req.no_save_state) => (files # << >> /\ TopBrowserOpen))
    /\ []((Done /\ hist.extracted) => OwnOpenBrowsers = {})

C11_Witness ==
    /\ Done
    /\ hist.extracted
    /\ ~req.provided
    /\ ~req.no_save_state
    /\ files = <<"storage", "sidecar">>
    /\ Len(browsers) = 1
    /\ ~browsers[1].open

\* C12: a browser supplied by the caller is never closed by google_search,
\* whether the call succeeds, fails or meets a block after the initial
\* navigation or after query execution.
C12_SuppliedBrowserStaysOpen ==
    req.provided => (Len(browsers) >= 1 /\ ~browsers[1].own /\ browsers[1].open)

C12_Witness ==
    /\ Done
    /\ req.provided
    /\ hist.queryBlock
    /\ Len(browsers) = 2
    /\ browsers[1].open
    /\ ~browsers[2].open

\* C13: with a supplied browser the page and the context the call created
\* are both closed by the time the call returns.
C13_PageAndContextClosed ==
    (Done /\ req.provided) => (stack[1].ctx # "open" /\ stack[1].page # "open")

\* the steps that persist never leave their path
SaveStepsStayOnPath ==
    /\ At("save") => (Len(stack') = Len(stack) /\ Top'.pc = "close" /\ Top'.raw = Top.raw)
    /\ At("except") => (Len(stack') = Len(stack) /\ Top'.pc = "except_close"
                           /\ Top'.err = Top.err)

\* C14: a failed write of the storage state or of the sidecar never
\* propagates and never changes the outcome: when results were extracted and
\* persistence then fails, google_search returns exactly those results.
C14_SaveFailureHarmless ==
    /\ [][SaveStepsStayOnPath]_vars
    /\ []((Done /\ hist.saveFailed) => outcome = Response(hist.raw))

C14_Witness ==
    /\ Done
    /\ hist.saveFailed
    /\ hist.raw # << >>
    /\ outcome = Response(hist.raw)

\* what execute_search, wait_for_search_results and the extraction raise
QueryErrors == {"SearchBoxNotFound", "InputFailed", "AllStrategiesBlocked", "AllStrategiesFailed"}
WaitErrors == {"BlockDetected", "ResultsNotFound"}
ExtractErrors == {"EvaluateFailed"}
BestEffortErrors == QueryErrors \cup WaitErrors \cup ExtractErrors

\* the except block starts with a persistence attempt and then goes on to
\* its response whatever the attempt did
AttemptsBeforeResponse ==
    (At("except") /\ Top.err \in BestEffortErrors /\ ~req.no_save_state) =>
        /\ Len(files') > Len(files)
        /\ files'[Len(files) + 1] \in {"storage", "storage_failed"}
        /\ Len(stack') = Len(stack)
        /\ Top'.pc = "except_close"
        /\ Top'.err = Top.err

\* C15: when query execution, result waiting or extraction fails and
\* persistence is not suppressed, the call attempts to persist the storage
\* state and the sidecar before it produces its response, and the response
\* is produced even when that attempt fails.
C15_BestEffortSave ==
    /\ [][AttemptsBeforeResponse]_vars
    /\ []((Done /\ outcome.err \in BestEffortErrors /\ ~req.no_save_state) =>
              (files # << >> /\ outcome = FailureResponse(outcome.err)))

C15_Witness ==
    /\ Done
    /\ ~req.no_save_state
    /\ outcome = FailureResponse("ResultsNotFound")
    /\ files = <<"storage_failed">>

\* the two messages execute_search raises when no strategy submitted
SubmissionExhausted == {"AllStrategiesBlocked", "AllStrategiesFailed"}

\* C16: when all three submission strategies throw, execute_search raises
\* its submission-exhausted error, the call ends with the failure response
\* of that error, and the browser is closed unless it was supplied.
C16_AllStrategiesThrow ==
    /\ [][(At("execute_search") /\ ~hist.allThrew /\ hist'.allThrew) =>
             (Top'.pc = "except" /\ Top'.err \in SubmissionExhausted)]_vars
    /\ []((Done /\ hist.allThrew) =>
              /\ outcome.err \in SubmissionExhausted
              /\ outcome = FailureResponse(outcome.err)
              /\ OwnOpenBrowsers = {}
              /\ (req.provided => browsers[1].open))

C16_Witness ==
    /\ Done
    /\ hist.allThrew
    /\ ~req.provided
    /\ Len(browsers) = 1
    /\ ~browsers[1].open
    /\ outcome = FailureResponse("AllStrategiesFailed")

\* C17: when wait_for_search_results finds no result container, the URL of
\* the page at that moment alone decides the failure: BlockDetected when it
\* matches the block predicate, ResultsNotFound otherwise.
C17_WaitFailureKind ==
    [][(At("wait_results") /\ Top'.pc = "except") =>
          /\ is_blocked_page(Top'.url, NoUrl) => Top'.err = "BlockDetected"
          /\ ~is_blocked_page(Top'.url, NoUrl) => Top'.err = "ResultsNotFound"]_vars

C17_Witness ==
    /\ Done
    /\ hist.blockHeadless
    /\ ~hist.waitBlock
    /\ outcome = FailureResponse("ResultsNotFound")

\* events of the log that stand for a write of the storage-state file or of
\* the sidecar, or for an attempt at one
PersistenceEvents == {"storage", "sidecar", "storage_failed", "sidecar_failed"}

\* C18: with no_save_state neither the storage-state file nor the sidecar
\* is written, nor is a write attempted, on any path of a search (success,
\* failure, escalation) or of an HTML capture.
C18_SuppressedNeverWrites ==
    req.no_save_state => \A i \in 1..Len(files) : files[i] \notin PersistenceEvents

\* an HTML capture that wrote its page and its screenshot, finished under
\* no_save_state
C18_Witness ==
    /\ Done
    /\ req.no_save_state
    /\ files = << >>
    /\ outcome.kind = "html"
    /\ Len(html.written) = 2

\* C19: a session state saved to the sidecar by save_browser_state and
\* loaded again by load_saved_state from the same state-file path comes back
\* with a fingerprint equal field for field and with the same domain.
C19_FingerprintRoundTrip ==
    (sidecar.pc = "done" /\ sidecar.saved = "ok") =>
        /\ sidecar.loaded.fingerprint.some = sidecar.mem.fingerprint.some
        /\ sidecar.mem.fingerprint.some =>
               \A f \in FingerprintFields :
                   sidecar.loaded.fingerprint.v[f] = sidecar.mem.fingerprint.v[f]
        /\ sidecar.loaded.google_domain = sidecar.mem.google_domain

\* a fingerprint and a domain that replaced those of an earlier session
C19_Witness ==
    /\ sidecar.pc = "done"
    /\ sidecar.saved = "ok"
    /\ sidecar.before.fingerprint.some
    /\ sidecar.mem.fingerprint.some
    /\ sidecar.mem.google_domain.some
    /\ sidecar.loaded = sidecar.mem
    /\ sidecar.loaded # sidecar.before

\* s contains one of the configured markers
HasMarker(s) == \E k \in DOMAIN sorry_patterns : Contains(s, sorry_patterns[k])

\* C20: is_blocked_page(url, response_url) is true exactly when the URL, or
\* the response URL when one is given, contains a configured marker; with no
\* response URL it is true exactly when the URL contains one.
C20_BlockedIffMarker ==
    blk.pc = "done" =>
        /\ blk.out <=> (\/ HasMarker(blk.url)
                        \/ (blk.response_url # NoUrl /\ HasMarker(blk.response_url)))
        /\ blk.response_url = NoUrl => (blk.out <=> HasMarker(blk.url))

\* blocked on account of the response URL alone
C20_Witness ==
    /\ blk.pc = "done"
    /\ blk.out
    /\ ~HasMarker(blk.url)
    /\ Len(blk.url) = MaxUrlLen
    /\ blk.response_url = SorryUrl

\* the round of its selector that entry i of the log of waits is
RoundOf(log, i) == Cardinality({j \in 1..i : log[j].sel = log[i].sel})

\* C21: every selector is waited for in at most 3 rounds with timeouts of
\* exactly 5000, 10000 and 15000 ms, the selectors are taken in list order,
\* and no wait follows the one that saw a selector become visible.
C21_ProgressiveTimeouts ==
    LET log == waitrun.log IN
    waitrun.pc # "idle" =>
        /\ \A i \in 1..Len(log) :
              /\ RoundOf(log, i) <= 3
              /\ log[i].timeout = <<5000, 10000, 15000>>[RoundOf(log, i)]
              /\ log[i].visible => (i = Len(log) /\ waitrun.pc \in {"found", "returned"})
        /\ Len(log) >= 1 => log[1].sel = 1
        /\ \A i \in 1..(Len(log) - 1) : log[i + 1].sel \in {log[i].sel, log[i].sel + 1}
        /\ waitrun.pc \in {"found", "returned"} => log[Len(log)].visible

\* the second selector became visible in its second round, after the three
\* rounds of the first
C21_Witness ==
    /\ waitrun.pc = "returned"
    /\ Len(waitrun.log) = 5
    /\ [i \in 1..5 |-> waitrun.log[i].timeout] = <<5000, 10000, 15000, 5000, 10000>>
    /\ [i \in 1..5 |-> waitrun.log[i].sel] = <<1, 1, 1, 2, 2>>

\* the saved fingerprint names a device profile that is known
SavedKnownDevice ==
    /\ fpc.before.some
    /\ fpc.before.v.device_name \in playwright_devices

\* C22: a saved device profile name that is known is the profile of the
\* context; otherwise the desktop profile picked at random is the profile of
\* the context and is the one recorded in the session state.
C22_FingerprintChoice ==
    fpc.pc = "done" =>
        IF SavedKnownDevice
        THEN /\ fpc.context_device = fpc.before.v.device_name
             /\ fpc.fingerprint = fpc.before
        ELSE /\ fpc.pick \in {device_list[i] : i \in DOMAIN device_list}
             /\ fpc.context_device = fpc.pick
             /\ fpc.fingerprint.some
             /\ fpc.fingerprint.v.device_name = fpc.pick

\* the zone identifiers get_host_machine_config can return
ZoneIds ==
    {"Asia/Shanghai", "Asia/Tokyo", "Asia/Bangkok", "Europe/London", "Europe/Berlin",
     "America/New_York"}

\* the zone the comments of get_host_machine_config give a host that is
\* h hours east of UTC
ZoneOfComment(h) ==
    CASE h = 8 -> "Asia/Shanghai"
      [] h = 9 -> "Asia/Tokyo"
      [] h = 7 -> "Asia/Bangkok"
      [] h = 0 -> "Europe/London"
      [] h = -5 -> "America/New_York"

\* C30: the host offset is bucketed as the comments say (UTC+8 Shanghai,
\* UTC+9 Tokyo, UTC+7 Bangkok, UTC+0 London, UTC-5 New York), and every
\* offset gets one of the fixed zone identifiers.
C30_TimezoneBuckets ==
    (fpc.pc \in {"fresh", "done"} /\ ~fpc.before.some) =>
        /\ fpc.host_config.timezone_id \in ZoneIds
        /\ \A h \in {8, 9, 7, 0, -5} :
              fpc.utc_offset_quarters = 4 * h =>
                  fpc.host_config.timezone_id = ZoneOfComment(h)

\* the domain the sidecar on disk holds, if it is readable and truthy
DomainOnDisk == PersistedDomain(disk, DefaultStateFile)

Sequential == conc.pc = "run" /\ ~conc.overlap

Navigated(c) == c.selected_domain.some

LoadedDomainInUse ==
    \E i \in DOMAIN conc.calls :
        Active(conc.calls[i]) /\ StrTruthy(conc.calls[i].loaded.google_domain)

C25_NotSerialized ==
    conc.pc = "run" =>
        \A i \in DOMAIN conc.calls : conc.calls[i].pc # "done" => ENABLED CallStep(i)

\* both calls loaded the empty state and picked different domains; the state
\* file left on disk is call 1's, the sidecar is call 2's, and the domain
\* call 1 recorded is lost
C25_Witness ==
    /\ conc.pc = "run" /\ conc.overlap
    /\ \A i \in DOMAIN conc.calls : conc.calls[i].pc = "done" /\ Navigated(conc.calls[i])
    /\ \A i \in DOMAIN conc.calls : ~StrTruthy(conc.calls[i].loaded.google_domain)
    /\ conc.calls[1].selected_domain # conc.calls[2].selected_domain
    /\ conc.wrote = [state |-> 1, side |-> 2]
    /\ disk[DefaultStateFile] = StorageOf(1)
    /\ DomainOnDisk = conc.calls[2].selected_domain

\* C24: HTML capture launches at most one browser, always headless, and
\* never restarts; once the call is over and a browser had been launched,
\* that browser is closed, and the call raised the wrapped error if anything
\* failed after the launch and returned the HTML response otherwise.
C24_HtmlCaptureHeadlessWrappedClosed ==
    html.pc # "idle" =>
        /\ Len(browsers) <= 1
        /\ \A b \in DOMAIN browsers : browsers[b].mode = Mode(TRUE)
        /\ hist.restarts = 0
        /\ (html.pc = "h_done" /\ html.browser # 0) =>
              /\ ~browsers[html.browser].open
              /\ drivers[Len(drivers)] = "stopped"
              /\ IF html.err # "" THEN outcome = Wrapped(html.err)
                 ELSE outcome.kind = "html"

\* the navigation timed out after the launch: the call raised the wrapped
\* error and its browser is closed
C24_Witness ==
    /\ html.pc = "h_done"
    /\ html.browser = 1
    /\ html.err = "NavigationTimeout"
    /\ outcome = Wrapped("NavigationTimeout")
    /\ ~browsers[1].open

LaunchesIn(mode) == Cardinality({i \in DOMAIN hist.launches : hist.launches[i] = mode})

\* C26: provided every step that can be taken is eventually taken, every
\* google_search call reaches its final response or error; there are never
\* more than two activations of the sequence, at most one restart, and at
\* most one headless and one headful launch.
C26_Terminates ==
    /\ <>Done
    /\ [](/\ Len(stack) <= 2
          /\ hist.restarts <= 1
          /\ LaunchesIn(Mode(TRUE)) <= 1
          /\ LaunchesIn(Mode(FALSE)) <= 1)

\* a call that ended after the headless run and the one headful re-run
C26_Witness ==
    /\ Done
    /\ hist.restarts = 1
    /\ hist.launches = <<Mode(TRUE), Mode(FALSE)>>
    /\ Len(stack) = 1

\* the logged run of strategy n, if it ran
RanAt(n) == {k \in DOMAIN exec.ran : exec.ran[k].n = n}

OutcomeOf(n) ==
    IF RanAt(n) = {} THEN [kind |-> "throw", url |-> exec.st.url]
    ELSE exec.ran[CHOOSE k \in RanAt(n) : TRUE].o

\* the strategy threw, found no control, or left the page on a blocked URL
StrategyFailed(o) ==
    \/ o.kind \in {"throw", "missing"}
    \/ o.kind = "nav" /\ is_blocked_page(o.url, NoUrl)

\* C27: the strategies run in the order 1, 2, 3; strategy 2 runs only after
\* strategy 1 threw or left a blocked URL, strategy 3 only after strategy 2
\* ran and threw, found no control or left a blocked URL; the call succeeds
\* exactly when the last strategy run completed on a non-blocked URL, and
\* no strategy runs after that; without a query input nothing is typed and
\* no strategy runs.
C27_StrategyOrder ==
    exec.pc # "idle" =>
        /\ \A k \in DOMAIN exec.ran : exec.ran[k].n = k
        /\ \A k \in DOMAIN exec.ran : k > 1 => StrategyFailed(exec.ran[k - 1].o)
        /\ (exec.ran # << >>) => exec.ran[1].o.kind # "missing"
        /\ exec.input # "ok" => exec.ran = << >>
        /\ exec.input = "nobox" =>
              ~exec.typed /\ exec.pc = "done" /\ exec.res.err = "SearchBoxNotFound"
        /\ exec.pc = "done" =>
              /\ exec.res.ok <=>
                    (exec.ran # << >> /\ ~StrategyFailed(exec.ran[Len(exec.ran)].o))
              /\ (exec.input = "ok" /\ ~exec.res.ok) => Len(exec.ran) = 3
              /\ exec.input = "ok" =>
                    exec.res = execute_search(exec.url0, "ok", OutcomeOf(1), OutcomeOf(2),
                                              OutcomeOf(3))

\* strategy 1 left a blocked URL, strategy 2 found no control, strategy 3
\* completed on the results page: the call succeeded
C27_Witness ==
    /\ exec.pc = "done"
    /\ exec.res.ok
    /\ Len(exec.ran) = 3
    /\ exec.ran[1].o = [kind |-> "nav", url |-> SorryUrl]
    /\ exec.ran[2].o.kind = "missing"
    /\ exec.ran[3].o = [kind |-> "nav", url |-> ResultsUrl]

\* hosts of the search engine: the domains a search can be run on
SearchEngineHosts ==
    { <<"google", ".com/">>, <<"google", ".co.uk/">>, <<"google", ".ca/">>,
      <<"google", ".com.au/">> }

\* a link into the search engine's own site
SameSiteLink(link) ==
    \/ \E h \in SearchEngineHosts : Contains(link, h)
    \/ Contains(link, <<"accounts.", "google">>)
    \/ Contains(link, <<"support.", "google">>)

\* what the selector sets alone yield for the page
StructuralResults ==
    ScanSelectorSets(xDom.sets, 1, [results |-> << >>, seen |-> {}], xLimit).results

\* C28: the anchor scan is used only when the selector sets gave fewer than
\* limit results; what it adds comes after the structural results, is no
\* link seen before and no link into the search engine's own site; at most
\* limit results are returned.
C28_FallbackScan ==
    Extracted =>
        LET n == Len(StructuralResults) IN
        /\ Len(xResults) <= xLimit
        /\ n >= xLimit => xResults = Slice(StructuralResults, xLimit)
        /\ n < xLimit =>
              /\ Len(xResults) >= n
              /\ SubSeq(xResults, 1, n) = StructuralResults
              /\ \A i \in (n + 1)..Len(xResults) :
                    /\ ~SameSiteLink(xResults[i].link)
                    /\ \A j \in 1..(i - 1) : xResults[j].link # xResults[i].link

\* what a load_saved_state of the files now on disk has to have returned
LoadedAsClaimed(saved_state, storage_state) ==
    LET state_file == sidecar.state_file
        side == sidecar.fingerprint_file IN
    /\ storage_state = (IF state_file \in DOMAIN disk THEN state_file ELSE NoPath)
    /\ state_file \notin DOMAIN disk => saved_state = EmptySavedState
    /\ (side \notin DOMAIN disk \/ disk[side] = Garbage) => saved_state = EmptySavedState

\* C29: load_saved_state always returns; with a missing or unparsable
\* sidecar, or without a state file, the session state it returns is empty,
\* and the storage-state reference is the state-file path exactly when that
\* file exists. Holds for the load before the session and for the load
\* after the save.
C29_LoadNeverFails ==
    /\ sidecar.pc \in {"session", "save"} =>
            LoadedAsClaimed(sidecar.before, sidecar.storage_state)
    /\ sidecar.pc = "done" => LoadedAsClaimed(sidecar.loaded, sidecar.storage_state)

\* the state file exists and the sidecar does not parse: the load returned
\* the storage-state reference and an empty session state
C29_Witness ==
    /\ sidecar.pc = "session"
    /\ sidecar.state_file \in DOMAIN disk
    /\ sidecar.fingerprint_file \in DOMAIN disk
    /\ disk[sidecar.fingerprint_file] = Garbage
    /\ sidecar.storage_state = sidecar.state_file
    /\ sidecar.before = EmptySavedState

\* the steps of an activation after its except block was entered
AfterExcept == {"except", "except_close", "finally", "ret", "done"}

\* C31: an activation in which execute_search raised because every strategy
\* ended on a blocked URL goes through its except block and starts no
\* re-run; when that is the headless activation of the call, the call ends
\* with the failure response and no restart. The load wait in front of the
\* post-query block check is entered only on a non-blocked URL.
C31_BlockedStrategiesNoEscalation ==
    /\ \A k \in DOMAIN stack :
          /\ stack[k].pc = "stabilise" => ~is_blocked_page(stack[k].url, NoUrl)
          /\ stack[k].err = "AllStrategiesBlocked" =>
                /\ k = Len(stack)
                /\ stack[k].pc \in AfterExcept
                /\ is_blocked_page(stack[k].url, NoUrl)
    /\ (stack # << >> /\ stack[1].err = "AllStrategiesBlocked") =>
          /\ hist.restarts = 0
          /\ Done => outcome = FailureResponse("AllStrategiesBlocked")

\* a headless call whose three strategies all ended on the block page
C31_Witness ==
    /\ Done
    /\ stack[1].headless
    /\ stack[1].err = "AllStrategiesBlocked"
    /\ outcome = FailureResponse("AllStrategiesBlocked")
    /\ hist.launches = <<Mode(TRUE)>>

\* the block check after query execution finds a block in the headless
\* activation that runs on the supplied browser
QueryBlockOnSupplied ==
    /\ At("check_query")
    /\ Top.provided
    /\ Top.headless
    /\ is_blocked_page(Top.url, NoUrl)

C33_SidecarPathDistinct ==
    sidecar.pc \in {"session", "save", "load", "done"} =>
        /\ sidecar.fingerprint_file # sidecar.state_file
        /\ sidecar.saved = "ok" => disk[sidecar.state_file] = StorageContent

\* C34: with save_to_file, the path handed to page.screenshot differs from
\* the path the HTML was written to, and the two files written are distinct.
C34_ScreenshotPathDistinct ==
    (html.pc # "idle" /\ html.save_to_file /\ html.saved_path # NoPath) =>
        /\ screenshot_file_path(html.saved_path) # html.saved_path
        /\ html.screenshot_path # html.saved_path
        /\ Len(html.written) = 2 => html.written[1] # html.written[2]

\* C35: when google_search has returned, every Playwright driver the call
\* started is stopped.
C35_DriversStopped ==
    Done => \A d \in DOMAIN drivers : drivers[d] = "stopped"

\* the except block of activation f has made its persistence attempt, which
\* calls context.storage_state unless saving is suppressed
ExceptSaveDone(f) ==
    /\ f.err # ""
    /\ f.pc \in {"except_close", "finally", "ret", "done"}
    /\ ~req.no_save_state

\* C36: no storage-state save is attempted on a context the call has closed,
\* and the browser.close() of the finally clause never meets a browser the
\* call has closed already.
C36_NoUseAfterClose ==
    /\ \A k \in DOMAIN stack : ExceptSaveDone(stack[k]) => stack[k].ctx # "closed"
    /\ (At("finally") /\ ~Top.provided) => browsers[Top.browser].open

\* C37: in the headful re-run the session state is the one the headless
\* attempt left: its fingerprint and domain stay as they were, the re-run
\* navigates to the same domain, what is persisted at the end is that
\* fingerprint and domain, and when the headless attempt derived the
\* fingerprint the re-run applies the same device profile and settings.
C37_SameSessionStateAfterEscalation ==
    (fpc.pc \in {"r_context", "r_domain", "r_check", "r_done"} /\ fpc.run = 2) =>
        /\ fpc.pc = "r_context" => fpc.saved_state = fpc.after_first
        /\ fpc.pc # "r_context" =>
              /\ fpc.saved_state.fingerprint = fpc.after_first.fingerprint
              /\ ~fpc.loaded.fingerprint.some => fpc.options[2] = fpc.options[1]
              /\ \A f \in FingerprintFields \ {"device_name"} :
                    fpc.options[2][f] = fpc.options[1][f]
        /\ fpc.pc \in {"r_check", "r_done"} =>
              /\ fpc.selected_domain[2] = fpc.selected_domain[1]
              /\ fpc.saved_state = fpc.after_first
        /\ fpc.pc = "r_done" => fpc.persisted = fingerprint_data(fpc.after_first)

\* a call that began without a session state, escalated and ended: the
\* re-run used the fingerprint and the domain of the headless attempt
C37_Witness ==
    /\ fpc.pc = "r_done"
    /\ fpc.run = 2
    /\ fpc.loaded = EmptySavedState
    /\ fpc.options[1].color_scheme = "dark"
    /\ fpc.options[2] = fpc.options[1]
    /\ fpc.selected_domain[1] = Str("https://www.google.co.uk")
    /\ fpc.selected_domain[2] = fpc.selected_domain[1]
    /\ fpc.persisted = fingerprint_data(fpc.saved_state)

\* no strategy left the page anywhere but on the results page of the query
OnlyResultsPage ==
    \A k \in DOMAIN exec.ran :
        exec.ran[k].o.kind # "missing" => exec.ran[k].o.url = ResultsUrlFor(exec.query)

\* C38: when the query typed contains a marker and shows in the results
\* URL, execute_search judges every strategy blocked and raises although
\* the page was the results page throughout; with a query that leaves no
\* marker in the URL, a first strategy that reaches the results page ends
\* execute_search successfully.
C38_MarkerInQueryBlocks ==
    (exec.pc = "done" /\ exec.input = "ok" /\ OnlyResultsPage) =>
        IF HasMarker(ResultsUrlFor(exec.query))
        THEN /\ ~exec.res.ok
             /\ exec.res.err = "AllStrategiesBlocked"
             /\ Len(exec.ran) = 3
             /\ exec.res.url = ResultsUrlFor(exec.query)
        ELSE exec.ran[1].o.kind = "nav" => (exec.res.ok /\ Len(exec.ran) = 1)

\* the query "captcha": all three strategies reached the results page and
\* execute_search raised
C38_Witness ==
    /\ exec.pc = "done"
    /\ exec.query = "captcha"
    /\ Len(exec.ran) = 3
    /\ \A k \in 1..3 : exec.ran[k].o = [kind |-> "nav", url |-> ResultsUrlFor("captcha")]
    /\ exec.res = [ok |-> FALSE, err |-> "AllStrategiesBlocked",
                   url |-> ResultsUrlFor("captcha")]

\* C39: in every persistence attempt of a search (success path, except
\* block) and of an HTML capture, the sidecar is written, or its write
\* attempted, only right after the storage-state file was written; after a
\* storage-state write that failed the attempt is over and the sidecar is
\* not touched.
C39_SidecarOnlyAfterStorage ==
    \A i \in 1..Len(files) :
        /\ files[i] \in {"sidecar", "sidecar_failed"} => (i > 1 /\ files[i - 1] = "storage")
        /\ files[i] = "storage_failed" =>
               (i = Len(files) \/ files[i + 1] \in {"storage", "storage_failed"})

\* an HTML capture whose storage-state write failed: nothing else was written
C39_Witness ==
    /\ Done
    /\ outcome.kind = "html"
    /\ ~req.no_save_state
    /\ files = <<"storage_failed">>

\* C40: when the timer of the server cancels google_search at an await
\* after the browser was launched, call_tool returns the timeout text and
\* every browser the call launched is closed.
C40_CancelClosesAndTimesOut ==
    (srv.pc = "returned" /\ srv.timer # "armed" /\ srv.launched) =>
        /\ srv.payload = "timeout"
        /\ \A i \in DOMAIN browsers : browsers[i].own => ~browsers[i].open

\* every browser launched by a call that was cancelled is closed when
\* call_tool returns
CancelledBrowsersClosed ==
    (srv.pc = "returned" /\ srv.timer # "armed" /\ srv.launched) =>
        \A i \in DOMAIN browsers : browsers[i].own => ~browsers[i].open

\* a CancelledError that left google_search becomes the timeout text
PropagatedCancelTimesOut ==
    (srv.pc = "returned" /\ srv.timer = "cancelled") => srv.payload = "timeout"

====
